---- MODULE Spec2Model ----
(***************************************************************************)
(* Verification model of charon's MIR -> ULLBC body translation            *)
(* (translate_functions_to_ullbc.rs), of the hash-consing table of         *)
(* common.rs, of the pass pipeline and the command-line helpers of         *)
(* driver.rs, of the checked scalar constructors of values_utils.rs, and   *)
(* of the control-flow reconstruction that driver.rs calls (ullbc_to_llbc, *)
(* described in spec.md sections 3, 4, 7 and 8).                           *)
(*                                                                         *)
(* The state machines share the module; each specification moves its own   *)
(* variables and leaves the others at their initial value:                 *)
(*   SpecTrans   translate_body_aux on one MIR body                        *)
(*   SpecTransMir  the same, with the MIR edges it reads noted             *)
(*   SpecHC      HashConsed::new / clone / with_inner_mut on one thread    *)
(*   SpecHCConc  HashConsed::new / with_inner_mut on two threads           *)
(*   SpecStruct  structuring of one procedure graph                        *)
(*   SpecBatch   structuring of the procedure graphs of a batch            *)
(*   SpecDriver  one call of driver::translate                             *)
(*   SpecDecls   translate_function / translate_global and their bodies    *)
(*   SpecArgs    arg_value and get_args_source_index on a command line     *)
(*   SpecScalar  ScalarValue::from_uint / from_int                         *)
(*   SpecBlock   translate_basic_block on one block                        *)
(***************************************************************************)
EXTENDS Integers, Sequences, FiniteSets, TLC

(***************************************************************************)
(* Bounds of the model.                                                    *)
(***************************************************************************)
\* Number of basic blocks of the MIR body (hax::BasicBlock 0 .. MaxMirBlocks-1).
MaxMirBlocks == 3
\* Longest arm list of a MIR SwitchInt.
MaxArms == 2
\* Longest statement list of a MIR basic block.
MaxStmts == 1
\* Longest statement list of the block given to translate_basic_block alone.
MaxBlockStmts == 2
\* Number of distinct values of the hash-consed type T.
MaxVal == 2
\* Number of HashConsed<T> handles a thread holds at once.
MaxHandles == 2
\* Longest local_decls of a MIR body (the return place included).
MaxLocals == 3
\* Largest number of inputs of a function signature.
MaxInputs == 1
\* Length of the bodies vector at which no further declaration is translated.
MaxBodies == 2
\* Longest argument list handed to the command-line helpers.
MaxArgs == 3
\* Largest number of blocks of a procedure graph handed to the structuring engine.
MaxBlocks == 4
\* Largest number of forks of a procedure graph: a block with n successors
\* counts for n - 1.
MaxForks == 2
\* Largest number of blocks without statements of a procedure graph.
MaxEmptyBlocks == 2
\* Number of scalar arms of a multi-way switch (the otherwise arm comes on top).
SwitchArms == 2
\* Number of procedures of a batch.
MaxProcs == 2
\* Number of observable items (statements, decisions, outcome) a run is followed for.
MaxTrace == 7

(***************************************************************************)
(* Option<T>: None is the empty sequence, Some(x) a one-element sequence.  *)
(***************************************************************************)
None == << >>
Some(x) == << x >>
IsSome(o) == Len(o) = 1
Unwrap(o) == o[1]

Range(s) == { s[i] : i \in 1..Len(s) }

(***************************************************************************)
(*                    PART 1: MIR -> ULLBC                                 *)
(***************************************************************************)
VARIABLES
    tpc,            \* position in translate_body_aux
    blocks_map,     \* BodyTransCtx::blocks_map : hax::BasicBlock -> BlockId
    blocks_stack,   \* BodyTransCtx::blocks_stack : VecDeque<hax::BasicBlock>
    blocks_counter, \* BodyTransCtx::blocks_counter : next fresh BlockId
    blocks,         \* BodyTransCtx::blocks : ordered map BlockId -> BlockData
    cur,            \* translate_basic_block in progress: its locals block_id, nid, statements
    last,           \* the MIR block translated by the last step, with its result
    body            \* the value translate_body_aux returns

transVars == << tpc, blocks_map, blocks_stack, blocks_counter, blocks, cur, last, body >>

MirBlockIds == 0 .. (MaxMirBlocks - 1)

\* rustc_middle::mir::START_BLOCK and ullbc_ast::START_BLOCK_ID.
START_BLOCK == 0
START_BLOCK_ID == 0

\* The integer types a switch discriminant has in the model.
IntTys == { "U8", "I8" }
\* The switch values of the MIR, as rustc stores them (the bits of the value),
\* in the order of the source switch: the first n of 255, 1, 2, ...
ArmValue(i) == IF i = 1 THEN 255 ELSE i - 1

\* hax::UnwindAction: Cleanup(block), or one of the block-less actions.
UnwindActions == { None } \cup { Some(b) : b \in MirBlockIds }

\* Arm lists (value, target) of a MIR SwitchInt, values pairwise distinct.
MirArmLists ==
    UNION { { [ i \in 1..n |-> << ArmValue(i), t[i] >> ] : t \in [1..n -> MirBlockIds] } :
            n \in 1..MaxArms }

\* hax::TerminatorKind.
MirTerminators ==
         [ kind : {"Goto"}, target : MirBlockIds ]
    \cup [ kind : {"SwitchInt"}, targets : [ kind : {"If"}, if_block : MirBlockIds,
                                             then_block : MirBlockIds ] ]
    \cup [ kind : {"SwitchInt"}, targets : [ kind : {"SwitchInt"}, ty : IntTys,
                                             targets_map : MirArmLists,
                                             otherwise : MirBlockIds ] ]
    \cup [ kind : {"UnwindResume", "UnwindTerminate", "Return", "Unreachable",
                   "InlineAsm", "CoroutineDrop", "TailCall", "Yield"} ]
    \cup [ kind : {"Drop"}, target : MirBlockIds, unwind : UnwindActions ]
    \cup [ kind : {"Call"}, fun : {"Panic", "Fun", "Move"},
           target : { None } \cup { Some(b) : b \in MirBlockIds },
           unwind : UnwindActions ]
    \cup [ kind : {"Assert"}, target : MirBlockIds, unwind : UnwindActions ]
    \cup [ kind : {"FalseEdge"}, real_target : MirBlockIds,
           imaginary_target : MirBlockIds ]
    \cup [ kind : {"FalseUnwind"}, real_target : MirBlockIds, unwind : UnwindActions ]

\* hax::StatementKind, one representative of each way translate_statement goes.
MirStatementKinds == { "Assign", "StorageLive", "CopyNonOverlapping" }
MirStatementLists == UNION { [1..n -> MirStatementKinds] : n \in 0..MaxStmts }

\* ops_ok, an input beside the statements or the terminator: every place,
\* operand, type and function reference in them translates (translate_place,
\* translate_operand, ... return Ok). It is drawn only where there is one.
OperandStatementKinds ==
    { "Assign", "FakeRead", "PlaceMention", "SetDiscriminant", "Deinit", "Assume" }
StatementsHaveOperands(statements) ==
    Range(statements) \cap OperandStatementKinds # {}

\* The RawStatement built for a statement kind whose operands translated.
RawStatementOf(kind) ==
    CASE kind = "PlaceMention" -> "FakeRead"
      [] kind = "Assume" -> "Assert"
      [] OTHER -> kind
TerminatorHasOperands(terminator) ==
    terminator.kind \in {"SwitchInt", "Drop", "Call", "Assert"}

(***************************************************************************)
(* The block-id part of BodyTransCtx, threaded through the translation.    *)
(***************************************************************************)
Ctx(m, s, c) == [ blocks_map |-> m, blocks_stack |-> s, blocks_counter |-> c ]

\* BodyTransCtx::fresh_block_id: queue the MIR block and give it the next id.
fresh_block_id(ctx, rid) ==
    Ctx((rid :> ctx.blocks_counter) @@ ctx.blocks_map,
        Append(ctx.blocks_stack, rid),
        ctx.blocks_counter + 1)

\* A translate_basic_block_id that never looks the block up.
translate_basic_block_id_always_fresh(ctx, block_id) == fresh_block_id(ctx, block_id)

\* translate_basic_block_id: the context after the call; the id it returns
\* is BlockIdOf(<that context>, block_id).
translate_basic_block_id(ctx, block_id) ==
    IF block_id \in DOMAIN ctx.blocks_map THEN ctx ELSE fresh_block_id(ctx, block_id)

BlockIdOf(ctx, block_id) == ctx.blocks_map[block_id]

\* ScalarValue::from_le_bytes: the low byte of the stored bits, read at the
\* signedness of the discriminant type.
from_le_bytes(int_ty, v) ==
    LET w == v % 256
    IN  IF int_ty = "I8" /\ w >= 128 THEN w - 256 ELSE w

\* The closure of translate_switch_targets mapped over targets_map, in order:
\* the context after the first n arms.
RECURSIVE ArmsCtx(_, _, _)
ArmsCtx(ctx, targets_map, n) ==
    IF n = 0 THEN ctx
    ELSE translate_basic_block_id(ArmsCtx(ctx, targets_map, n - 1), targets_map[n][2])

\* A translate_switch_targets that collects the arms in reverse order.
translate_switch_targets_reversed(ctx, targets) ==
    IF targets.kind = "If"
    THEN LET c1 == translate_basic_block_id(ctx, targets.if_block)
             c2 == translate_basic_block_id(c1, targets.then_block)
         IN  [ ctx |-> c2,
               targets |-> [ kind |-> "If",
                             if_block |-> BlockIdOf(c2, targets.then_block),
                             then_block |-> BlockIdOf(c1, targets.if_block) ] ]
    ELSE LET n  == Len(targets.targets_map)
             ca == ArmsCtx(ctx, targets.targets_map, n)
             co == translate_basic_block_id(ca, targets.otherwise)
         IN  [ ctx |-> co,
               targets |-> [ kind |-> "SwitchInt",
                             ty |-> targets.ty,
                             targets_map |->
                                 [ i \in 1..n |->
                                     << from_le_bytes(targets.ty,
                                                      targets.targets_map[n + 1 - i][1]),
                                        BlockIdOf(ca, targets.targets_map[n + 1 - i][2]) >> ],
                             otherwise |-> BlockIdOf(co, targets.otherwise) ] ]

\* translate_switch_targets: [ctx, targets].
translate_switch_targets(ctx, targets) ==
    IF targets.kind = "If"
    THEN LET c1 == translate_basic_block_id(ctx, targets.if_block)
             c2 == translate_basic_block_id(c1, targets.then_block)
         IN  [ ctx |-> c2,
               targets |-> [ kind |-> "If",
                             if_block |-> BlockIdOf(c1, targets.if_block),
                             then_block |-> BlockIdOf(c2, targets.then_block) ] ]
    ELSE LET n  == Len(targets.targets_map)
             ca == ArmsCtx(ctx, targets.targets_map, n)
             co == translate_basic_block_id(ca, targets.otherwise)
         IN  [ ctx |-> co,
               targets |-> [ kind |-> "SwitchInt",
                             ty |-> targets.ty,
                             targets_map |->
                                 [ i \in 1..n |->
                                     << from_le_bytes(targets.ty, targets.targets_map[i][1]),
                                        BlockIdOf(ArmsCtx(ctx, targets.targets_map, i),
                                                  targets.targets_map[i][2]) >> ],
                             otherwise |-> BlockIdOf(co, targets.otherwise) ] ]

\* Results of translate_terminator / translate_function_call.
TermOk(ctx, stmts, t) == [ res |-> "Ok", ctx |-> ctx, pushed |-> stmts, terminator |-> t ]
TermErr(ctx) == [ res |-> "Err", ctx |-> ctx, pushed |-> << >>, terminator |-> None ]
TermPanic(ctx) == [ res |-> "Panic", ctx |-> ctx, pushed |-> << >>, terminator |-> None ]

Goto(target) == [ kind |-> "Goto", target |-> target ]
\* A Goto to the MIR block id itself, not to the id registered for it.
GotoToMirId(ctx, block_id) == Goto(block_id)

\* Goto { target } with target = self.translate_basic_block_id(target).
GotoTo(ctx, block_id) ==
    Goto(BlockIdOf(translate_basic_block_id(ctx, block_id), block_id))

\* A translate_function_call that also registers the cleanup block of the call.
translate_function_call_follow_unwind(ctx, ops_ok, term) ==
    LET c0 == IF IsSome(term.unwind)
              THEN translate_basic_block_id(ctx, Unwrap(term.unwind))
              ELSE ctx
        c1 == IF IsSome(term.target)
              THEN translate_basic_block_id(c0, Unwrap(term.target))
              ELSE c0
    IN  IF ~ops_ok THEN TermErr(ctx)
        ELSE IF term.fun = "Panic"
        THEN IF IsSome(term.target)
             THEN TermPanic(c1)
             ELSE TermOk(c1, << >>, [ kind |-> "Abort", reason |-> "Panic" ])
        ELSE IF IsSome(term.target)
             THEN TermOk(c1, << "Call" >>, Goto(BlockIdOf(c1, Unwrap(term.target))))
             ELSE TermOk(c1, << "Call" >>,
                         [ kind |-> "Abort", reason |-> "UndefinedBehavior" ])

\* A translate_function_call that pushes the Call statement before it looks
\* at the function called.
translate_function_call_push_first(ctx, ops_ok, term) ==
    LET c1 == IF IsSome(term.target)
              THEN translate_basic_block_id(ctx, Unwrap(term.target))
              ELSE ctx
    IN  IF ~ops_ok THEN TermErr(ctx)
        ELSE IF term.fun = "Panic"
        THEN IF IsSome(term.target)
             THEN TermPanic(c1)
             ELSE TermOk(c1, << "Call" >>, [ kind |-> "Abort", reason |-> "Panic" ])
        ELSE IF IsSome(term.target)
             THEN TermOk(c1, << "Call" >>, Goto(BlockIdOf(c1, Unwrap(term.target))))
             ELSE TermOk(c1, << "Call" >>,
                         [ kind |-> "Abort", reason |-> "UndefinedBehavior" ])

\* translate_function_call.
translate_function_call(ctx, ops_ok, term) ==
    LET c1 == IF IsSome(term.target)
              THEN translate_basic_block_id(ctx, Unwrap(term.target))
              ELSE ctx
    IN  IF ~ops_ok THEN TermErr(ctx)
        ELSE IF term.fun = "Panic"
        THEN IF IsSome(term.target)
             THEN TermPanic(c1)
             ELSE TermOk(c1, << >>, [ kind |-> "Abort", reason |-> "Panic" ])
        ELSE IF IsSome(term.target)
             THEN TermOk(c1, << "Call" >>, Goto(BlockIdOf(c1, Unwrap(term.target))))
             ELSE TermOk(c1, << "Call" >>,
                         [ kind |-> "Abort", reason |-> "UndefinedBehavior" ])

\* translate_terminator: the statements it pushes and the terminator it returns.
translate_terminator(ctx, ops_ok, term) ==
    CASE term.kind = "Goto" ->
            TermOk(translate_basic_block_id(ctx, term.target), << >>,
                   GotoTo(ctx, term.target))
      [] term.kind = "SwitchInt" ->
            IF ~ops_ok THEN TermErr(ctx)
            ELSE LET r == translate_switch_targets(ctx, term.targets)
                 IN  TermOk(r.ctx, << >>, [ kind |-> "Switch", targets |-> r.targets ])
      [] term.kind \in {"UnwindResume", "UnwindTerminate"} -> TermErr(ctx)
      [] term.kind = "Return" -> TermOk(ctx, << >>, [ kind |-> "Return" ])
      [] term.kind = "Unreachable" ->
            TermOk(ctx, << >>, [ kind |-> "Abort", reason |-> "UndefinedBehavior" ])
      [] term.kind = "Drop" ->
            IF ~ops_ok THEN TermErr(ctx)
            ELSE TermOk(translate_basic_block_id(ctx, term.target), << "Drop" >>,
                        GotoTo(ctx, term.target))
      [] term.kind = "Call" -> translate_function_call(ctx, ops_ok, term)
      [] term.kind = "Assert" ->
            IF ~ops_ok THEN TermErr(ctx)
            ELSE TermOk(translate_basic_block_id(ctx, term.target), << "Assert" >>,
                        GotoTo(ctx, term.target))
      [] term.kind = "FalseEdge" ->
            TermOk(translate_basic_block_id(ctx, term.real_target), << >>,
                   GotoTo(ctx, term.real_target))
      [] term.kind = "FalseUnwind" ->
            TermOk(translate_basic_block_id(ctx, term.real_target), << >>,
                   GotoTo(ctx, term.real_target))
      [] term.kind = "InlineAsm" -> TermErr(ctx)
      [] term.kind \in {"CoroutineDrop", "TailCall", "Yield"} -> TermErr(ctx)

\* translate_statement: Some(statement), None for an ignored statement, or an
\* error.
translate_statement(ops_ok, kind) ==
    CASE kind \in OperandStatementKinds ->
            IF ops_ok THEN [ res |-> "Ok", stmt |-> Some(RawStatementOf(kind)) ]
            ELSE [ res |-> "Err", stmt |-> None ]
      [] kind = "StorageDead" -> [ res |-> "Ok", stmt |-> Some("StorageDead") ]
      [] kind \in { "StorageLive", "Retag", "AscribeUserType", "Coverage",
                    "ConstEvalCounter", "Nop" } -> [ res |-> "Ok", stmt |-> None ]
      [] kind = "CopyNonOverlapping" -> [ res |-> "Err", stmt |-> None ]

\* The statement loop of translate_basic_block over the first n statements.
\* A statement loop that puts each translated statement in front of the
\* earlier ones.
RECURSIVE TranslateStatementsPrepending(_, _, _)
TranslateStatementsPrepending(ops_ok, stmts, n) ==
    IF n = 0 THEN [ res |-> "Ok", statements |-> << >> ]
    ELSE LET prev == TranslateStatementsPrepending(ops_ok, stmts, n - 1)
             one  == translate_statement(ops_ok, stmts[n])
         IN  IF prev.res # "Ok" THEN prev
             ELSE IF one.res # "Ok" THEN [ res |-> "Err", statements |-> << >> ]
             ELSE [ res |-> "Ok", statements |-> one.stmt \o prev.statements ]

RECURSIVE TranslateStatements(_, _, _)
TranslateStatements(ops_ok, stmts, n) ==
    IF n = 0 THEN [ res |-> "Ok", statements |-> << >> ]
    ELSE LET prev == TranslateStatements(ops_ok, stmts, n - 1)
             one  == translate_statement(ops_ok, stmts[n])
         IN  IF prev.res # "Ok" THEN prev
             ELSE IF one.res # "Ok" THEN [ res |-> "Err", statements |-> << >> ]
             ELSE [ res |-> "Ok", statements |-> prev.statements \o one.stmt ]

\* The targets of a translated terminator.
TargetsOf(t) ==
    CASE t.kind = "Goto" -> { t.target }
      [] t.kind = "Switch" /\ t.targets.kind = "If" ->
            { t.targets.if_block, t.targets.then_block }
      [] t.kind = "Switch" /\ t.targets.kind = "SwitchInt" ->
            { t.targets.targets_map[i][2] : i \in 1..Len(t.targets.targets_map) }
                \cup { t.targets.otherwise }
      [] OTHER -> {}

\* What the model keeps of a stored BlockData: the kind of its terminator and
\* the block ids it names. The full block is in `last` when it is produced.
BlockShape(block) ==
    [ kind |-> block.terminator.kind, targets |-> TargetsOf(block.terminator) ]

\* BodyTransCtx::push_block.
push_block(blks, nid, block) == (nid :> BlockShape(block)) @@ blks

\* The loop of translate_body_aux that moves the ordered map into a Vector:
\* Vector::push returns the index of the pushed element, and the loop asserts
\* that it is the key. The Vector is the sequence vec, block id i at vec[i+1].
RECURSIVE BlocksToVector(_, _)
BlocksToVector(blks, vec) ==
    IF DOMAIN blks = {} THEN [ ok |-> TRUE, vec |-> vec ]
    ELSE LET id     == CHOOSE i \in DOMAIN blks : \A j \in DOMAIN blks : i <= j
             new_id == Len(vec)
         IN  IF id # new_id THEN [ ok |-> FALSE, vec |-> vec ]
             ELSE BlocksToVector([ k \in DOMAIN blks \ {id} |-> blks[k] ],
                                 Append(vec, blks[id]))

InitTrans ==
    /\ tpc = "start"
    /\ blocks_map = << >>
    /\ blocks_stack = << >>
    /\ blocks_counter = 0
    /\ blocks = << >>
    /\ cur = None
    /\ last = None
    /\ body = None

\* translate_transparent_expression_body, up to its loop: register the start
\* block and assert that it got START_BLOCK_ID.
RegisterStartBlock ==
    /\ tpc = "start"
    /\ LET c == translate_basic_block_id(
                    Ctx(blocks_map, blocks_stack, blocks_counter), START_BLOCK)
       IN  /\ blocks_map' = c.blocks_map
           /\ blocks_stack' = c.blocks_stack
           /\ blocks_counter' = c.blocks_counter
           /\ tpc' = IF BlockIdOf(c, START_BLOCK) = START_BLOCK_ID
                     THEN "blocks" ELSE "panic_start"
    /\ UNCHANGED << blocks, cur, last, body >>

\* One iteration of the loop of translate_transparent_expression_body, first
\* half: pop_front, then translate_basic_block up to its terminator (the
\* block's id, the statement loop).
TranslateBlockStatements ==
    /\ tpc = "blocks"
    /\ blocks_stack # << >>
    /\ \E stmts \in MirStatementLists :
       \E ops_ok \in (IF StatementsHaveOperands(stmts) THEN BOOLEAN ELSE {TRUE}) :
         LET block_id == Head(blocks_stack)
             c0 == translate_basic_block_id(
                      Ctx(blocks_map, Tail(blocks_stack), blocks_counter), block_id)
             ss == TranslateStatements(ops_ok, stmts, Len(stmts))
         IN  /\ blocks_map' = c0.blocks_map
             /\ blocks_stack' = c0.blocks_stack
             /\ blocks_counter' = c0.blocks_counter
             /\ IF ss.res = "Ok"
                THEN /\ cur' = Some([ block_id |-> block_id,
                                      nid |-> BlockIdOf(c0, block_id),
                                      mir_statements |-> stmts,
                                      statements |-> ss.statements ])
                     /\ last' = None
                     /\ tpc' = "terminator"
                ELSE /\ cur' = None
                     /\ last' = Some([ block_id |-> block_id, res |-> ss.res,
                                       cause |-> "statement" ])
                     /\ tpc' = "error"
    /\ UNCHANGED << blocks, body >>

\* Second half of translate_basic_block: translate_terminator, which may add
\* a statement, then push_block.
TranslateBlockTerminator ==
    /\ tpc = "terminator"
    /\ \E term \in MirTerminators :
       \E ops_ok \in (IF TerminatorHasOperands(term) THEN BOOLEAN ELSE {TRUE}) :
         LET c == Unwrap(cur)
             r == translate_terminator(
                      Ctx(blocks_map, blocks_stack, blocks_counter), ops_ok, term)
             block == [ statements |-> c.statements \o r.pushed,
                        terminator |-> r.terminator ]
         IN  /\ blocks_map' = r.ctx.blocks_map
             /\ blocks_stack' = r.ctx.blocks_stack
             /\ blocks_counter' = r.ctx.blocks_counter
             /\ cur' = None
             /\ IF r.res = "Ok"
                THEN /\ blocks' = push_block(blocks, c.nid, block)
                     /\ last' = Some([ block_id |-> c.block_id, res |-> "Ok",
                                       mir_statements |-> c.mir_statements,
                                       mir_terminator |-> term,
                                       translated |-> c.statements,
                                       nid |-> c.nid, block |-> block,
                                       map_before |-> blocks_map ])
                     /\ tpc' = "blocks"
                ELSE /\ blocks' = blocks
                     /\ last' = Some([ block_id |-> c.block_id, res |-> r.res,
                                       cause |-> term.kind,
                                       mir_terminator |-> term ])
                     /\ tpc' = IF r.res = "Err" THEN "error" ELSE "panic_call"
    /\ UNCHANGED body

\* The end of translate_body_aux once the stack is empty: the blocks are
\* moved into a Vector and the body is returned.
AssembleBody ==
    /\ tpc = "blocks"
    /\ blocks_stack = << >>
    /\ LET v == BlocksToVector(blocks, << >>)
       IN  IF v.ok
           THEN /\ body' = Some([ kind |-> "Unstructured", body |-> v.vec ])
                /\ tpc' = "done"
           ELSE /\ body' = body
                /\ tpc' = "panic_id"
    /\ blocks' = << >>
    /\ UNCHANGED << blocks_map, blocks_stack, blocks_counter, cur, last >>


(***************************************************************************)
(*                    PART 2: hash-consing (common.rs)                     *)
(***************************************************************************)
VARIABLES
    interned,   \* INTERNED's entry for T: None, or Some(HashMap<T, Arc<T>>)
    heap,       \* the live Arc<T> allocations: address -> inner value
    handles,    \* the HashConsed<T> values each thread holds: slot -> Option<address>
    th          \* each thread's position in new / with_inner_mut / intern

hcVars == << interned, heap, handles, th >>

\* The threads of the sequential specification.
SeqThreads == { 1 }
\* The threads that share INTERNED.
HCThreads == { 1, 2 }
Vals == 1..MaxVal
Slots == 1..MaxHandles

\* Between calls; op is the call the thread completed last.
Done(op) == [ pc |-> "idle", op |-> op ]
Idle == Done("none")

\* Either<T, Arc<T>>, the argument of intern.
Left(v) == [ kind |-> "Left", val |-> v ]
Right(p) == [ kind |-> "Right", ptr |-> p ]

\* The addresses a thread holds in the middle of a call: the Arc inside
\* intern's argument.
HeldBy(rec) ==
    IF rec.pc # "idle" /\ rec.inner.kind = "Right" THEN { rec.inner.ptr } ELSE {}

\* Arc's strong count of the allocation at p: the handles, the table entries
\* and the in-flight Arcs that point to it.
StrongCount(p, tbl, hs, ts) ==
      Cardinality({ << t, s >> \in HCThreads \X Slots : hs[t][s] = Some(p) })
    + (IF IsSome(tbl)
       THEN Cardinality({ v \in DOMAIN Unwrap(tbl) : Unwrap(tbl)[v] = p })
       ELSE 0)
    + Cardinality({ t \in HCThreads : p \in HeldBy(ts[t]) })

\* Dropping the last Arc frees the allocation.
Live(hp, tbl, hs, ts) ==
    [ p \in { q \in DOMAIN hp : StrongCount(q, tbl, hs, ts) > 0 } |-> hp[p] ]

\* Arc::new: the allocator hands out a free address, maybe one freed before.
FreshPtr(hp) == CHOOSE p \in 0..Cardinality(DOMAIN hp) : p \notin DOMAIN hp

\* x.as_ref(): the value intern looks up.
InnerVal(inner, hp) == IF inner.kind = "Left" THEN inner.val ELSE hp[inner.ptr]

\* An intern whose lookup never finds the value.
InternFoundNever(table, v) == FALSE

\* The lookup of intern: (*read_guard).get::<T>().unwrap().get(value).
InternFound(table, v) == v \in DOMAIN table

InitHC ==
    /\ interned = None
    /\ heap = << >>
    /\ handles = [ t \in HCThreads |-> [ s \in Slots |-> None ] ]
    /\ th = [ t \in HCThreads |-> Idle ]

\* HashConsed::new(inner): enters intern(Either::Left(inner)).
NewBegin(t) ==
    /\ th[t].pc = "idle"
    /\ \E s \in Slots, v \in Vals :
         /\ handles[t][s] = None
         /\ th' = [ th EXCEPT ![t] = [ pc |-> "check", op |-> "new", slot |-> s,
                                       inner |-> Left(v) ] ]
    /\ UNCHANGED << interned, heap, handles >>

\* Clone (derived): a second handle to the same Arc.
CloneHandle(t) ==
    /\ th[t].pc = "idle"
    /\ \E s, d \in Slots :
         /\ handles[t][s] # None
         /\ handles[t][d] = None
         /\ handles' = [ handles EXCEPT ![t][d] = handles[t][s] ]
    /\ UNCHANGED << interned, heap, th >>

\* A handle goes out of scope.
DropHandle(t) ==
    /\ th[t].pc = "idle"
    /\ \E s \in Slots :
         /\ handles[t][s] # None
         /\ handles' = [ handles EXCEPT ![t][s] = None ]
         /\ heap' = Live(heap, interned, handles', th)
    /\ UNCHANGED << interned, th >>

\* with_inner_mut, up to the call of intern: Arc::make_mut (in place when
\* the Arc is unique, a fresh copy otherwise), f, and self.0.clone().
WithInnerMutBegin(t) ==
    /\ th[t].pc = "idle"
    /\ \E s \in Slots, v \in Vals :
         /\ handles[t][s] # None
         /\ LET old == Unwrap(handles[t][s])
                p   == IF StrongCount(old, interned, handles, th) = 1
                       THEN old ELSE FreshPtr(heap)
                hs  == [ handles EXCEPT ![t][s] = Some(p) ]
                ts  == [ th EXCEPT ![t] = [ pc |-> "check", op |-> "with_inner_mut",
                                            slot |-> s, inner |-> Right(p) ] ]
            IN  /\ handles' = hs
                /\ th' = ts
                /\ heap' = Live((p :> v) @@ heap, interned, hs, ts)
    /\ UNCHANGED interned

\* intern: INTERNED.read().unwrap().get::<T>().is_none().
InternCheck(t) ==
    /\ th[t].pc = "check"
    /\ th' = [ th EXCEPT ![t].pc = IF interned = None THEN "mktable" ELSE "lookup" ]
    /\ UNCHANGED << interned, heap, handles >>

\* intern: INTERNED.write().unwrap().insert::<T>(Default::default()). The
\* insert replaces the table T had, if any, and drops it.
InternMakeTable(t) ==
    /\ th[t].pc = "mktable"
    /\ interned' = Some(<< >>)
    /\ th' = [ th EXCEPT ![t].pc = "lookup" ]
    /\ heap' = Live(heap, interned', handles, th')
    /\ UNCHANGED handles

\* intern: the lookup under the read guard. Found: the interned Arc is
\* cloned into the result, the argument is dropped, and the caller stores the
\* result (new: in its slot; with_inner_mut: over *self).
InternLookup(t) ==
    /\ th[t].pc = "lookup"
    /\ LET table == Unwrap(interned)
           v == InnerVal(th[t].inner, heap)
       IN  IF InternFound(table, v)
           THEN /\ handles' = [ handles EXCEPT ![t][th[t].slot] = Some(table[v]) ]
                /\ th' = [ th EXCEPT ![t] = Done(th[t].op) ]
                /\ heap' = Live(heap, interned, handles', th')
           ELSE /\ th' = [ th EXCEPT ![t].pc = "insert" ]
                /\ UNCHANGED << heap, handles >>
    /\ UNCHANGED interned

\* intern, slow path: the value is cloned as the key, the Arc is made
\* (Arc::new for Left, the argument itself for Right), a clone of it is
\* inserted under the write lock, and Self(arc) is returned to the caller.
InternInsert(t) ==
    /\ th[t].pc = "insert"
    /\ LET inner == th[t].inner
           v   == InnerVal(inner, heap)
           arc == IF inner.kind = "Left" THEN FreshPtr(heap) ELSE inner.ptr
           hp  == (arc :> v) @@ heap
       IN  /\ interned' = Some((v :> arc) @@ Unwrap(interned))
           /\ handles' = [ handles EXCEPT ![t][th[t].slot] = Some(arc) ]
           /\ th' = [ th EXCEPT ![t] = Done(th[t].op) ]
           /\ heap' = Live(hp, interned', handles', th')

(***************************************************************************)
(*        PART 3: the structuring engine (ullbc_to_llbc), from its         *)
(*        design: graph model, dominance and loops, exits, regions.        *)
(***************************************************************************)
VARIABLES
    spc,        \* position in the batch: "build", "ready" or "structured"
    graph,      \* the procedure graph being handed over: block id -> Block
    registered, \* number of block ids the graph refers to so far
    result,     \* None, or the outcome of structuring the current procedure
    batch       \* the outcomes of the procedures structured before

structVars == << spc, graph, registered, result, batch >>

ENTRY == 0
AbortReasons == { "UndefinedBehavior", "Panic" }

\* The targets of a terminator, in arm order (the otherwise arm last).
Successors(term) ==
    CASE term.kind = "Goto" -> << term.target >>
      [] term.kind = "If" -> << term.then_block, term.else_block >>
      [] term.kind = "Switch" ->
            [ i \in 1..Len(term.arms) |-> term.arms[i][2] ] \o << term.otherwise >>
      [] OTHER -> << >>

SuccessorSet(g, b) == Range(Successors(g[b].term))
Predecessors(g, b) == { p \in DOMAIN g : b \in SuccessorSet(g, p) }

\* The blocks reachable from the set S without entering a block of avoid.
RECURSIVE ReachAvoiding(_, _, _)
ReachAvoiding(g, S, avoid) ==
    LET S2 == S \cup { t \in DOMAIN g \ avoid : \E u \in S : t \in SuccessorSet(g, u) }
    IN  IF S2 = S THEN S ELSE ReachAvoiding(g, S2, avoid)

\* Iterative dominator computation rooted at the entry block.
RECURSIVE DominatorsFix(_, _)
DominatorsFix(g, D) ==
    LET D2 == [ b \in DOMAIN g |->
                 IF b = ENTRY THEN { ENTRY }
                 ELSE { b } \cup { d \in DOMAIN g :
                                     \A p \in Predecessors(g, b) : d \in D[p] } ]
    IN  IF D2 = D THEN D ELSE DominatorsFix(g, D2)

Dominators(g) ==
    DominatorsFix(g, [ b \in DOMAIN g |-> IF b = ENTRY THEN { ENTRY } ELSE DOMAIN g ])

\* The immediate dominator: the strict dominator every other strict
\* dominator dominates. None for the entry block.
ImmediateDominator(dom, b) ==
    LET strict == dom[b] \ { b }
    IN  IF strict = {} THEN None
        ELSE Some(CHOOSE d \in strict : \A e \in strict : e \in dom[d])

\* A back edge is an edge u -> v where v dominates u.
BackEdgeSources(g, dom, h) == { u \in DOMAIN g : h \in SuccessorSet(g, u) /\ h \in dom[u] }
LoopHeaders(g, dom) == { h \in DOMAIN g : BackEdgeSources(g, dom, h) # {} }

\* The natural loop of h: h and the blocks that reach a back-edge source
\* of h without passing through h.
NaturalLoop(g, dom, h) ==
    { h } \cup { x \in DOMAIN g \ { h } :
                  ReachAvoiding(g, { x }, { h }) \cap BackEdgeSources(g, dom, h) # {} }

\* The blocks on any cycle, natural loops included.
OffendingBlocksAnyCycle(g, dom) ==
    { b \in DOMAIN g : b \in ReachAvoiding(g, SuccessorSet(g, b), {}) }

\* A graph is reducible when its edges other than back edges form no
\* cycle; the offending blocks are those on such a cycle.
ForwardGraph(g, dom) ==
    [ b \in DOMAIN g |-> { t \in SuccessorSet(g, b) : t \notin dom[b] } ]
RECURSIVE ForwardReach(_, _)
ForwardReach(fg, S) ==
    LET S2 == S \cup UNION { fg[u] : u \in S }
    IN  IF S2 = S THEN S ELSE ForwardReach(fg, S2)
OffendingBlocks(g, dom) ==
    LET fg == ForwardGraph(g, dom)
    IN  { b \in DOMAIN g : b \in ForwardReach(fg, fg[b]) }

\* The analysis facts of one procedure graph.
Analyze(g) ==
    LET dom == Dominators(g)
    IN  [ g |-> g,
          dom |-> dom,
          idom |-> [ b \in DOMAIN g |-> ImmediateDominator(dom, b) ],
          headers |-> LoopHeaders(g, dom),
          loops |-> [ b \in DOMAIN g |-> NaturalLoop(g, dom, b) ],
          offending |-> OffendingBlocks(g, dom) ]

\* The nodes of the structured statement tree. A tree is a Sequence of nodes.
Stmt(b) == [ node |-> "Stmt", block |-> b ]
IfNodeSwapped(b, t, e) == [ node |-> "If", cond |-> b, then_tree |-> e, else_tree |-> t ]
IfNode(b, t, e) == [ node |-> "If", cond |-> b, then_tree |-> t, else_tree |-> e ]
SwitchNode(b, arms, d) == [ node |-> "Switch", discr |-> b, arms |-> arms, default_tree |-> d ]
LoopNode(body_tree) == [ node |-> "Loop", body_tree |-> body_tree ]
BreakNode(level) == [ node |-> "Break", level |-> level ]
ContinueNode(level) == [ node |-> "Continue", level |-> level ]
ReturnNode == [ node |-> "Return" ]
AbortNode(reason) == [ node |-> "Abort", reason |-> reason ]

\* An Exit Resolver that finds no join point.
JoinPointNone(a, b) == None

\* Exit Resolver: the join point of the branch at b is the unique block
\* whose immediate dominator is b and that every arm reaches.
JoinPoint(a, b) ==
    LET cands == { j \in DOMAIN a.g :
                     /\ a.idom[j] = Some(b)
                     /\ \A t \in SuccessorSet(a.g, b) :
                           j \in ReachAvoiding(a.g, { t }, { b }) }
    IN  IF Cardinality(cands) = 1 THEN Some(CHOOSE j \in cands : TRUE) ELSE None

\* The loop stack: the enclosing loops, outermost first, each with its
\* header and its exit block.
Frame(h, e) == [ header |-> h, exit |-> e ]
StackHeaders(ls) == { ls[i].header : i \in 1..Len(ls) }
StackExits(ls) == { ls[i].exit : i \in 1..Len(ls) }

\* A level that is one too deep.
LevelOfOffByOne(ls, i) == Len(ls) - i + 1

\* The level of the i-th frame: the number of loops between the current
\* position and that loop (0 = innermost).
LevelOf(ls, i) == Len(ls) - i

\* The innermost frame whose header, or whose exit, is b.
HeaderFrame(ls, b) ==
    CHOOSE i \in 1..Len(ls) :
        ls[i].header = b /\ \A k \in (i+1)..Len(ls) : ls[k].header # b
ExitFrame(ls, b) ==
    CHOOSE i \in 1..Len(ls) :
        ls[i].exit = Some(b) /\ \A k \in (i+1)..Len(ls) : ls[k].exit # Some(b)

\* A loop without an exit block.
LoopExitNone(a, h, ls) == None

\* The exit block of the loop of h: the successor outside the natural
\* loop if there is one such block, the first of them if there are several;
\* a jump to the header of an enclosing loop is a Continue, not an exit.
LoopExit(a, h, ls) ==
    LET L == a.loops[h]
        outside == { t \in DOMAIN a.g \ L : \E u \in L : t \in SuccessorSet(a.g, u) }
        cands == outside \ StackHeaders(ls)
    IN  IF cands = {} THEN None
        ELSE Some(CHOOSE t \in cands : \A u \in cands : t <= u)

\* Region Structurer. StructureRegion resolves the jump to b (Continue,
\* Break, fallthrough to the expected continuation, or a new Loop);
\* StructureBlock emits b's statements and structures its terminator.
RECURSIVE StructureRegion(_, _, _, _)
RECURSIVE StructureBlock(_, _, _, _)
StructureBlock(a, b, ls, cont) ==
    LET blk == a.g[b]
        t   == blk.term
        pre == IF blk.stmts THEN << Stmt(b) >> ELSE << >>
        j   == JoinPoint(a, b)
        arm == IF IsSome(j) THEN j ELSE cont
        after == IF IsSome(j) THEN StructureRegion(a, Unwrap(j), ls, cont) ELSE << >>
    IN  CASE t.kind = "Return" -> pre \o << ReturnNode >>
          [] t.kind = "Abort" -> pre \o << AbortNode(t.reason) >>
          [] t.kind = "Goto" -> pre \o StructureRegion(a, t.target, ls, cont)
          [] t.kind = "If" ->
                pre \o << IfNode(b, StructureRegion(a, t.then_block, ls, arm),
                                    StructureRegion(a, t.else_block, ls, arm)) >>
                    \o after
          [] t.kind = "Switch" ->
                pre \o << SwitchNode(b,
                             [ i \in 1..Len(t.arms) |->
                                 << t.arms[i][1],
                                    StructureRegion(a, t.arms[i][2], ls, arm) >> ],
                             StructureRegion(a, t.otherwise, ls, arm)) >>
                    \o after

StructureRegion(a, b, ls, cont) ==
    IF b \in StackHeaders(ls)
    THEN << ContinueNode(LevelOf(ls, HeaderFrame(ls, b))) >>
    ELSE IF Some(b) \in StackExits(ls)
    THEN << BreakNode(LevelOf(ls, ExitFrame(ls, b))) >>
    ELSE IF cont = Some(b)
    THEN << >>
    ELSE IF b \in a.headers
    THEN LET e == LoopExit(a, b, ls)
         IN  << LoopNode(StructureBlock(a, b, Append(ls, Frame(b, e)), None)) >>
               \o (IF IsSome(e) THEN StructureRegion(a, Unwrap(e), ls, cont)
                   ELSE << >>)
    ELSE StructureBlock(a, b, ls, cont)

\* The outcome of structuring one procedure: a structuring error naming
\* the offending blocks of an irreducible graph, or the structured tree.
StructureProcedure(g) ==
    LET a == Analyze(g)
    IN  IF a.offending # {}
        THEN [ kind |-> "Error", blocks |-> a.offending ]
        ELSE [ kind |-> "Tree", tree |-> StructureRegion(a, ENTRY, << >>, None) ]

\* The terminators the graph producer can hand over for the next block,
\* in the producer's numbering: a target is a block already referred to or
\* the next fresh id.
Targets(r) == 0 .. (IF r < MaxBlocks THEN r ELSE MaxBlocks - 1)
Bump(r, t) == IF t = r THEN r + 1 ELSE r

RECURSIVE ArmLists(_, _)
ArmLists(r, n) ==
    IF n = 0 THEN { [ targets |-> << >>, registered |-> r ] }
    ELSE UNION { { [ targets |-> Append(l.targets, t),
                     registered |-> Bump(l.registered, t) ] :
                     t \in Targets(l.registered) } : l \in ArmLists(r, n - 1) }
GotoTerminators(r) ==
    { [ term |-> [ kind |-> "Goto", target |-> l.targets[1] ],
        registered |-> l.registered ] : l \in ArmLists(r, 1) }
IfTerminators(r) ==
    { [ term |-> [ kind |-> "If", then_block |-> l.targets[1],
                   else_block |-> l.targets[2] ],
        registered |-> l.registered ] : l \in ArmLists(r, 2) }
SwitchTerminators(r) ==
    { [ term |-> [ kind |-> "Switch",
                   arms |-> [ i \in 1..SwitchArms |-> << i, l.targets[i] >> ],
                   otherwise |-> l.targets[SwitchArms + 1] ],
        registered |-> l.registered ] : l \in ArmLists(r, SwitchArms + 1) }
TerminalTerminators(r) ==
    { [ term |-> [ kind |-> "Return" ], registered |-> r ] }
    \cup { [ term |-> [ kind |-> "Abort", reason |-> x ], registered |-> r ] :
             x \in AbortReasons }

RECURSIVE Forks(_, _)
Forks(g, n) ==
    IF n = 0 THEN 0
    ELSE Forks(g, n - 1)
         + (IF Successors(g[n - 1].term) = << >> THEN 0
            ELSE Len(Successors(g[n - 1].term)) - 1)
EmptyBlocks(g) == Cardinality({ b \in DOMAIN g : ~g[b].stmts })
NumBlocks(g) == Cardinality(DOMAIN g)
OutcomeKind(res) == IF res.kind = "Tree" THEN "Structured" ELSE "Unstructurable"

InitStruct ==
    /\ spc = "build"
    /\ graph = << >>
    /\ registered = 1
    /\ result = None
    /\ batch = << >>

\* The producer hands over the next block of the current procedure.
AddBlock ==
    /\ spc = "build"
    /\ \E st \in { TRUE } \cup (IF EmptyBlocks(graph) < MaxEmptyBlocks
                               THEN { FALSE } ELSE {}) :
       \E c \in GotoTerminators(registered) \cup TerminalTerminators(registered)
                 \cup (IF Forks(graph, NumBlocks(graph)) + 1 <= MaxForks
                       THEN IfTerminators(registered) ELSE {})
                 \cup (IF Forks(graph, NumBlocks(graph)) + SwitchArms <= MaxForks
                       THEN SwitchTerminators(registered) ELSE {}) :
         /\ graph' = (NumBlocks(graph) :> [ stmts |-> st, term |-> c.term ]) @@ graph
         /\ registered' = c.registered
         /\ spc' = IF NumBlocks(graph') = registered' THEN "ready" ELSE "build"
    /\ UNCHANGED << result, batch >>

\* The engine structures the procedure.
Structure ==
    /\ spc = "ready"
    /\ result' = Some(StructureProcedure(graph))
    /\ spc' = "structured"
    /\ UNCHANGED << graph, registered, batch >>

\* The batch goes on to the next procedure, whatever the outcome was.
NextProcedure ==
    /\ spc = "structured"
    /\ Len(batch) < MaxProcs - 1
    /\ batch' = Append(batch, OutcomeKind(Unwrap(result)))
    /\ spc' = "build"
    /\ graph' = << >>
    /\ registered' = 1
    /\ result' = None

(***************************************************************************)
(* The pass pipeline of driver::translate (driver.rs).                     *)
(***************************************************************************)
VARIABLES
    dpc,        \* position in translate: [at, i]
    options,    \* internal.options: the flags translate reads
    ctx,        \* None before translate_crate_to_ullbc returned Ok; then the IR the context holds
    passes,     \* the calls translate made so far, in order
    printed,    \* what info! / println! reported
    ret         \* None while running; then the Result translate returned

driverVars == << dpc, options, ctx, passes, printed, ret >>

\* The flags of CliOpts that steer the pipeline.
CliOpts ==
    [ ullbc : BOOLEAN, print_ullbc : BOOLEAN, print_built_llbc : BOOLEAN,
      print_llbc : BOOLEAN ]

\* The calls between translate_crate_to_ullbc and the choice of the output.
UllbcPasses ==
    << "reorder_declarations", "remove_dynamic_checks", "simplify_constants" >>

\* A pipeline that reconstructs the asserts before the overflow checks are removed.
LlbcPassesAssertsEarly ==
    << "update_closure_signatures", "reconstruct_asserts",
       "remove_arithmetic_overflow_checks", "ops_to_function_calls",
       "index_to_function_calls", "remove_read_discriminant",
       "insert_assign_return_unit", "remove_drop_never", "remove_unused_locals",
       "remove_nops" >>

\* The micro-passes that follow ullbc_to_llbc::translate_functions.
LlbcPasses ==
    << "update_closure_signatures", "remove_arithmetic_overflow_checks",
       "reconstruct_asserts", "ops_to_function_calls",
       "index_to_function_calls", "remove_read_discriminant",
       "insert_assign_return_unit", "remove_drop_never", "remove_unused_locals",
       "remove_nops" >>

\* A driver that reconstructs the control flow whatever the options say.
StopAtUllbcNever(opts) == FALSE

\* if options.ullbc: the user wants the unstructured ULLBC.
StopAtUllbc(opts) == opts.ullbc

At(at, i) == [ at |-> at, i |-> i ]

InitDriver ==
    /\ dpc = At("idle", 0)
    /\ options = [ ullbc |-> FALSE, print_ullbc |-> FALSE,
                   print_built_llbc |-> FALSE, print_llbc |-> FALSE ]
    /\ ctx = None
    /\ passes = << >>
    /\ printed = {}
    /\ ret = None

\* rustc calls back translate with the options of the command line.
Translate ==
    /\ dpc.at = "idle"
    /\ \E opts \in CliOpts : options' = opts
    /\ dpc' = At("translate_crate_to_ullbc", 0)
    /\ UNCHANGED << ctx, passes, printed, ret >>

\* match translate_crate_to_ullbc::translate(..) { Ok(ctx) => ctx, Err(_) => return Err(()) }
TranslateCrateToUllbc ==
    /\ dpc.at = "translate_crate_to_ullbc"
    /\ passes' = Append(passes, "translate_crate_to_ullbc")
    /\ \E res \in { "Ok", "Err" } :
         IF res = "Ok"
         THEN /\ ctx' = Some("ullbc")
              /\ printed' = IF options.print_ullbc THEN printed \cup { "ullbc" }
                            ELSE printed
              /\ dpc' = At("ullbc_passes", 1)
              /\ ret' = ret
         ELSE /\ ret' = Some([ res |-> "Err", data |-> "none" ])
              /\ dpc' = At("done", 0)
              /\ UNCHANGED << ctx, printed >>
    /\ UNCHANGED options

\* reorder_declarations, remove_dynamic_checks::transform, simplify_constants::transform.
RunUllbcPass ==
    /\ dpc.at = "ullbc_passes"
    /\ passes' = Append(passes, UllbcPasses[dpc.i])
    /\ dpc' = IF dpc.i < Len(UllbcPasses) THEN At("ullbc_passes", dpc.i + 1)
              ELSE At("output", 0)
    /\ UNCHANGED << options, ctx, printed, ret >>

\* if options.ullbc { export::CrateData::new_ullbc(&ctx, crate_name) } ... Ok(crate_data)
ExportUllbc ==
    /\ dpc.at = "output"
    /\ StopAtUllbc(options)
    /\ passes' = Append(passes, "CrateData::new_ullbc")
    /\ ret' = Some([ res |-> "Ok", data |-> Unwrap(ctx) ])
    /\ dpc' = At("done", 0)
    /\ UNCHANGED << options, ctx, printed >>

\* else { ullbc_to_llbc::translate_functions(&mut ctx); ...
TranslateFunctions ==
    /\ dpc.at = "output"
    /\ ~StopAtUllbc(options)
    /\ passes' = Append(passes, "ullbc_to_llbc::translate_functions")
    /\ ctx' = Some("llbc")
    /\ printed' = IF options.print_built_llbc THEN printed \cup { "built_llbc" }
                  ELSE printed
    /\ dpc' = At("llbc_passes", 1)
    /\ UNCHANGED << options, ret >>

\* The micro-passes of the LLBC branch, one call each.
RunLlbcPass ==
    /\ dpc.at = "llbc_passes"
    /\ passes' = Append(passes, LlbcPasses[dpc.i])
    /\ dpc' = IF dpc.i < Len(LlbcPasses) THEN At("llbc_passes", dpc.i + 1)
              ELSE At("export_llbc", 0)
    /\ UNCHANGED << options, ctx, printed, ret >>

\* ... export::CrateData::new_llbc(&ctx, crate_name) }; Ok(crate_data)
ExportLlbc ==
    /\ dpc.at = "export_llbc"
    /\ printed' = IF options.print_llbc THEN printed \cup { "llbc" } ELSE printed
    /\ passes' = Append(passes, "CrateData::new_llbc")
    /\ ret' = Some([ res |-> "Ok", data |-> Unwrap(ctx) ])
    /\ dpc' = At("done", 0)
    /\ UNCHANGED << options, ctx >>

(***************************************************************************)
(* Declarations and their bodies: translate_function, translate_global,    *)
(* translate_body (translate_functions_to_ullbc.rs) and the printing of    *)
(* the locals of a body (gast_utils.rs).                                   *)
(***************************************************************************)
VARIABLES
    bodies,     \* t_ctx.translated.bodies: a vector of slots, None an empty one
    decl,       \* None, or the last call of translate_function / translate_global
    formatted   \* None, or the last body printed and the lines of its locals

declVars == << bodies, decl, formatted >>

\* The local_decls of a MIR body: index 0 is the return place, which has no
\* name; any other local is named or anonymous.
LocalDecls ==
    { l \in UNION { [ 1..n -> { None, Some("x") } ] : n \in 1..MaxLocals } :
        l[1] = None }

\* What decides the course of translate_body_aux on a definition; the
\* fields read after the point where the course ends are left at a default.
Defs ==
    { d \in [ opaque : BOOLEAN, has_mir : BOOLEAN, local_decls : LocalDecls,
              fails : { "none", "sinto", "translate_ty", "expression", "panic" } ] :
        /\ d.opaque => d.has_mir
        /\ (d.opaque \/ ~d.has_mir) => d.fails = "none"
        /\ (d.opaque \/ ~d.has_mir \/ d.fails # "none") => d.local_decls = << None >> }

ItemKinds == { "Regular", "TraitImpl", "TraitDecl", "TraitDeclDefault" }

\* translate_body_locals: push_var(index, ty, name) for each local_decl, in order.
translate_body_locals(local_decls) ==
    [ i \in 1..Len(local_decls) |-> [ index |-> i - 1, name |-> local_decls[i] ] ]

BodyRes(res, b) == [ res |-> res, body |-> b ]

\* translate_body_aux under catch_unwind: Ok(Ok(body)), Ok(Err(Opaque)),
\* Ok(Err(e)) or a panic.
translate_body_aux(def, arg_count) ==
    IF def.opaque \/ ~def.has_mir THEN BodyRes("Opaque", None)
    ELSE IF def.fails = "panic" THEN BodyRes("Panic", None)
    ELSE IF def.fails # "none" THEN BodyRes("Err", None)
    ELSE BodyRes("Body", Some([ arg_count |-> arg_count,
                                locals |-> translate_body_locals(def.local_decls) ]))

\* translate_body: a caught panic goes through error_or_panic!, which
\* returns the error or panics again.
translate_body(def, arg_count, eop) ==
    LET res == translate_body_aux(def, arg_count) IN
    IF res.res = "Panic" THEN BodyRes(eop, None) ELSE res

\* Vector::push: the new element takes the next id.
push(v, x) == [ vec |-> Append(v, Some(x)), id |-> Len(v) ]

\* A reserve_slot that hands out the next id without making the slot.
reserve_slot_no_slot(v) == [ vec |-> v, id |-> Len(v) ]

\* Vector::reserve_slot: "We reserve a slot and leave it empty."
reserve_slot(v) == [ vec |-> Append(v, None), id |-> Len(v) ]

\* A match that reserves a slot for every result other than a body.
StoreBodyAlwaysSlot(v, res) ==
    IF res.res = "Body" THEN push(v, Unwrap(res.body)) ELSE reserve_slot(v)

\* match self.translate_body(..) { Ok(Ok(body)) => Ok(push), Ok(Err(Opaque)) =>
\* Err(Opaque), Err(_) => Ok(reserve_slot) }: the new vector and the body id.
StoreBody(v, res) ==
    IF res.res = "Body" THEN push(v, Unwrap(res.body))
    ELSE IF res.res = "Err" THEN reserve_slot(v)
    ELSE [ vec |-> v, id |-> -1 ]

\* The record of one call: what was asked, what came back.
DeclCall(item, kind, inputs, def, body_res, res, id, before) ==
    [ item |-> item, kind |-> kind, inputs |-> inputs,
      opaque |-> def.opaque, has_mir |-> def.has_mir,
      local_decls |-> def.local_decls,
      body_res |-> body_res, res |-> res, body |-> id, before |-> before ]

InitDecls ==
    /\ bodies = << >>
    /\ decl = None
    /\ formatted = None

\* translate_function: kind, signature, then the body unless the function
\* is a trait method declaration without default.
TranslateFunction ==
    /\ Len(bodies) < MaxBodies
    /\ \E def \in Defs, kind \in ItemKinds \cup { "Err" },
          sig \in 0..MaxInputs \cup { -1 }, eop \in { "Err", "Panic" } :
         IF kind = "Err" \/ sig = -1
         THEN /\ decl' = Some(DeclCall("fun", kind, sig, def, "NotCalled", "Err", -1, bodies))
              /\ bodies' = bodies
         ELSE IF kind = "TraitDecl"
         THEN /\ decl' = Some(DeclCall("fun", kind, sig, def, "NotCalled", "Ok", -1, bodies))
              /\ bodies' = bodies
         ELSE LET res == translate_body(def, sig, eop)
                  st  == StoreBody(bodies, res)
              IN  IF res.res = "Panic"
                  THEN /\ decl' = Some(DeclCall("fun", kind, sig, def, "Panic", "Panic", -1, bodies))
                       /\ bodies' = bodies
                  ELSE /\ decl' = Some(DeclCall("fun", kind, sig, def, res.res, "Ok", st.id, bodies))
                       /\ bodies' = st.vec
    /\ UNCHANGED formatted

\* translate_global: kind, generics, type, then the body with arg_count 0.
TranslateGlobal ==
    /\ Len(bodies) < MaxBodies
    /\ \E def \in Defs, pre \in { "Ok", "Err" }, eop \in { "Err", "Panic" } :
         IF pre = "Err"
         THEN /\ decl' = Some(DeclCall("global", "Global", 0, def, "NotCalled", "Err", -1, bodies))
              /\ bodies' = bodies
         ELSE LET res == translate_body(def, 0, eop)
                  st  == StoreBody(bodies, res)
              IN  IF res.res = "Panic"
                  THEN /\ decl' = Some(DeclCall("global", "Global", 0, def, "Panic", "Panic", -1, bodies))
                       /\ bodies' = bodies
                  ELSE /\ decl' = Some(DeclCall("global", "Global", 0, def, res.res, "Ok", st.id, bodies))
                       /\ bodies' = st.vec
    /\ UNCHANGED formatted

\* A printer that takes the local at index arg_count for a plain local.
LocalCommentExclusive(v, arg_count) ==
    IF v.index = 0 THEN << "return", 0 >>
    ELSE IF v.index < arg_count THEN << "arg", v.index >>
    ELSE IF v.name # None THEN << "local", 0 >>
    ELSE << "anonymous local", 0 >>

\* The comment GExprBody::fmt_with_ctx puts after a local: "// return",
\* "// arg #index", "// local" or "// anonymous local".
LocalComment(v, arg_count) ==
    IF v.index = 0 THEN << "return", 0 >>
    ELSE IF v.index <= arg_count THEN << "arg", v.index >>
    ELSE IF v.name # None THEN << "local", 0 >>
    ELSE << "anonymous local", 0 >>

\* GExprBody::fmt_with_ctx: one line per local, in the order of the vector.
fmt_with_ctx(b) ==
    [ i \in 1..Len(b.locals) |->
        [ var |-> << b.locals[i].name, b.locals[i].index >>,
          comment |-> LocalComment(b.locals[i], b.arg_count) ] ]

\* A stored body is printed.
FmtBody ==
    /\ \E i \in 1..Len(bodies) :
         /\ bodies[i] # None
         /\ formatted' = Some([ id |-> i - 1, lines |-> fmt_with_ctx(Unwrap(bodies[i])) ])
    /\ UNCHANGED << bodies, decl >>

(***************************************************************************)
(* The command-line helpers of driver.rs.  A string is the sequence of its *)
(* characters.                                                             *)
(***************************************************************************)
VARIABLES
    call        \* None, or the last call of a helper: its inputs and its result

callVars == << call >>

\* The argument lists of at most MaxArgs words of a vocabulary.
ArgLists(words) == UNION { [ 1..n -> words ] : n \in 0..MaxArgs }

\* Words of a command line around the option "a": the option alone, with a
\* value, with an empty value, with a value holding '=', another option,
\* and plain values.
OptionWords ==
    { << "a" >>, << "a", "=", "v" >>, << "a", "=" >>, << "a", "=", "v", "=", "v" >>,
      << "b" >>, << "b", "=", "v" >>, << "v" >> }
FindArgs == { << "a" >>, << "b" >>, << "a", "=", "v" >> }
\* A predicate on values is the set of the values it accepts.
Preds == SUBSET { << "v" >>, << "a" >>, << >> }

\* arg.splitn(2, '='): the part before the first '=' and, if there is one,
\* the whole rest after it.
splitn2(arg) ==
    LET eqs == { i \in 1..Len(arg) : arg[i] = "=" } IN
    IF eqs = {} THEN [ first |-> arg, rest |-> None ]
    ELSE LET p == CHOOSE i \in eqs : \A j \in eqs : i <= j
         IN  [ first |-> SubSeq(arg, 1, p - 1),
               rest |-> Some(SubSeq(arg, p + 1, Len(arg))) ]

\* The while loop of arg_value, from the i-th argument on.
RECURSIVE arg_value_from(_, _, _, _)
arg_value_from(args, i, find_arg, pred) ==
    IF i > Len(args) THEN None
    ELSE LET sp == splitn2(args[i]) IN
         IF sp.first # find_arg THEN arg_value_from(args, i + 1, find_arg, pred)
         ELSE IF sp.rest # None
              THEN IF Unwrap(sp.rest) \in pred THEN sp.rest
                   ELSE arg_value_from(args, i + 1, find_arg, pred)
              ELSE IF i + 1 > Len(args) THEN None
                   ELSE IF args[i + 1] \in pred THEN Some(args[i + 1])
                        ELSE arg_value_from(args, i + 2, find_arg, pred)

\* An arg_value that takes the first argument for the program name.
arg_value_after_first(args, find_arg, pred) == arg_value_from(args, 2, find_arg, pred)

\* arg_value: the loop over all the arguments.
arg_value(args, find_arg, pred) == arg_value_from(args, 1, find_arg, pred)

\* Words around a source file name: "m.rs", ".rs", "m.rsx", "m.rs.d", "m.r",
\* "rs" and "m".
SourceWords ==
    { << "m", ".", "r", "s" >>, << ".", "r", "s" >>, << "m", ".", "r", "s", "x" >>,
      << "m", ".", "r", "s", ".", "d" >>, << "m", ".", "r" >>, << "r", "s" >>,
      << "m" >> }

\* Regex::new(r".*\.rs").is_match(s): the unanchored pattern matches when
\* some substring of s is any text followed by ".rs".
is_match(str) ==
    \E i \in 1..Len(str) : \E j \in i..Len(str) :
        /\ j >= i + 2
        /\ SubSeq(str, j - 2, j) = << ".", "r", "s" >>

\* get_args_source_index: the indices of the matching arguments, the
\* assertion, and the only index if there is one.
get_args_source_index(args) ==
    LET indices == { i \in 0..(Len(args) - 1) : is_match(args[i + 1]) } IN
    IF ~(Cardinality(indices) <= 1) THEN [ res |-> "Panic", index |-> None ]
    ELSE IF Cardinality(indices) = 1
         THEN [ res |-> "Ok", index |-> Some(CHOOSE i \in indices : TRUE) ]
         ELSE [ res |-> "Ok", index |-> None ]

InitCalls == call = None

\* One call of arg_value.
ArgValue ==
    /\ call = None
    /\ \E args \in ArgLists(OptionWords), find_arg \in FindArgs, pred \in Preds :
         call' = Some([ fn |-> "arg_value", args |-> args, find_arg |-> find_arg,
                        pred |-> pred, ret |-> arg_value(args, find_arg, pred) ])

\* One call of get_args_source_index.
GetArgsSourceIndex ==
    /\ call = None
    /\ \E args \in ArgLists(SourceWords) :
         call' = Some([ fn |-> "get_args_source_index", args |-> args,
                        ret |-> get_args_source_index(args) ])

(***************************************************************************)
(* Checked construction of scalar values (values.rs, values_utils.rs).     *)
(* A u128 or i128 is written s * 2^k + d with s in {-1, 0, 1}, k one of    *)
(* the widths of the integer types or one less, and d in -1 .. 1: the      *)
(* values at and around every bound the code compares with.                *)
(***************************************************************************)
Num(s, k, d) == [ s |-> s, k |-> k, d |-> d ]
Exps == { 7, 8, 15, 16, 31, 32, 63, 64, 127, 128 }

\* The u128 values: 0, 1, and 2^k - 1, 2^k, 2^k + 1 up to 2^128 - 1.
U128Vals ==
    { Num(0, 0, 0), Num(0, 0, 1) }
        \cup { n \in { Num(1, k, d) : k \in Exps, d \in -1..1 } :
                 ~(n.k = 128 /\ n.d >= 0) }

\* The i128 values: -1, 0, 1, and the values around 2^k and -2^k within
\* -2^127 .. 2^127 - 1.
I128Vals ==
    { Num(0, 0, d) : d \in -1..1 }
        \cup { n \in { Num(1, k, d) : k \in Exps \ { 128 }, d \in -1..1 } :
                 ~(n.k = 127 /\ n.d >= 0) }
        \cup { n \in { Num(-1, k, d) : k \in Exps \ { 128 }, d \in -1..1 } :
                 ~(n.k = 127 /\ n.d = -1) }

\* x <= y on these values: by sign, then by magnitude, then by offset.
Le(x, y) ==
    \/ x.s < y.s
    \/ x.s = y.s /\ x.s * x.k < y.s * y.k
    \/ x.s = y.s /\ x.k = y.k /\ x.d <= y.d

UnsignedTys == { "Usize", "U8", "U16", "U32", "U64", "U128" }
SignedTys == { "Isize", "I8", "I16", "I32", "I64", "I128" }
IntegerTys == SignedTys \cup UnsignedTys
\* The width of usize / isize on the machine charon is built for.
UsizeBits == { 32, 64 }

\* The number of bits of an integer type.
Bits(ty, usize_bits) ==
    CASE ty \in { "Usize", "Isize" } -> usize_bits
      [] ty \in { "U8", "I8" }       -> 8
      [] ty \in { "U16", "I16" }     -> 16
      [] ty \in { "U32", "I32" }     -> 32
      [] ty \in { "U64", "I64" }     -> 64
      [] OTHER                       -> 128

\* uint_is_in_bounds: v <= (uN::MAX as u128), true for U128, false for a
\* signed type.
uint_is_in_bounds(ty, v, usize_bits) ==
    IF ty = "U128" THEN TRUE
    ELSE IF ty \in UnsignedTys THEN Le(v, Num(1, Bits(ty, usize_bits), -1))
    ELSE FALSE

\* v as uN for a u128 v: the value modulo 2^N.
CastUnsigned(v, bits) ==
    IF Le(v, Num(1, bits, -1)) THEN v
    ELSE IF v.d = -1 THEN Num(1, bits, -1)
    ELSE Num(0, 0, v.d)

ScalarRes(res, ty, v) == [ res |-> res, ty |-> ty, value |-> v ]

\* from_unchecked_uint: the cast to the type, a panic for a signed type.
from_unchecked_uint(ty, v, usize_bits) ==
    IF ty = "U128" THEN ScalarRes("Ok", ty, v)
    ELSE IF ty \in UnsignedTys
         THEN ScalarRes("Ok", ty, CastUnsigned(v, Bits(ty, usize_bits)))
    ELSE ScalarRes("Panic", ty, Num(0, 0, 0))

\* from_uint: Err(()) if not in bounds, else Ok(from_unchecked_uint(ty, v)).
from_uint(ty, v, usize_bits) ==
    IF ~uint_is_in_bounds(ty, v, usize_bits) THEN ScalarRes("Err", ty, Num(0, 0, 0))
    ELSE from_unchecked_uint(ty, v, usize_bits)

\* A bounds check that forgets the lower bound.
int_is_in_bounds_upper_only(ty, v, usize_bits) ==
    IF ty = "I128" THEN TRUE
    ELSE IF ty \in SignedTys THEN Le(v, Num(1, Bits(ty, usize_bits) - 1, -1))
    ELSE FALSE

\* int_is_in_bounds: (iN::MIN as i128) <= v <= (iN::MAX as i128), true for
\* I128, false for an unsigned type.
int_is_in_bounds(ty, v, usize_bits) ==
    IF ty = "I128" THEN TRUE
    ELSE IF ty \in SignedTys
         THEN /\ Le(Num(-1, Bits(ty, usize_bits) - 1, 0), v)
              /\ Le(v, Num(1, Bits(ty, usize_bits) - 1, -1))
    ELSE FALSE

\* v as iN for an i128 v: the value modulo 2^N, read in two's complement.
CastSigned(v, bits) ==
    IF Le(Num(-1, bits - 1, 0), v) /\ Le(v, Num(1, bits - 1, -1)) THEN v
    ELSE IF v.k = bits - 1 THEN Num(-v.s, bits - 1, v.d)
    ELSE Num(0, 0, v.d)

\* from_unchecked_int: the cast to the type, a panic for an unsigned type.
from_unchecked_int(ty, v, usize_bits) ==
    IF ty = "I128" THEN ScalarRes("Ok", ty, v)
    ELSE IF ty \in SignedTys
         THEN ScalarRes("Ok", ty, CastSigned(v, Bits(ty, usize_bits)))
    ELSE ScalarRes("Panic", ty, Num(0, 0, 0))

\* from_int: Err(()) if not in bounds, else Ok(from_unchecked_int(ty, v)).
from_int(ty, v, usize_bits) ==
    IF ~int_is_in_bounds(ty, v, usize_bits) THEN ScalarRes("Err", ty, Num(0, 0, 0))
    ELSE from_unchecked_int(ty, v, usize_bits)

\* One call of ScalarValue::from_uint.
FromUint ==
    /\ call = None
    /\ \E ty \in IntegerTys, v \in U128Vals, usize_bits \in UsizeBits :
         call' = Some([ fn |-> "from_uint", ty |-> ty, v |-> v,
                        usize_bits |-> usize_bits,
                        ret |-> from_uint(ty, v, usize_bits) ])

\* One call of ScalarValue::from_int.
FromInt ==
    /\ call = None
    /\ \E ty \in IntegerTys, v \in I128Vals, usize_bits \in UsizeBits :
         call' = Some([ fn |-> "from_int", ty |-> ty, v |-> v,
                        usize_bits |-> usize_bits,
                        ret |-> from_int(ty, v, usize_bits) ])

(***************************************************************************)
(* The edges of the MIR body, as the translation reads them.               *)
(***************************************************************************)
VARIABLES
    mir_edges   \* body.basic_blocks read so far: MIR block -> the targets of its terminator

mirVars == << mir_edges >>

\* The targets of a MIR terminator that control reaches when nothing unwinds.
RealTargets(term) ==
    CASE term.kind = "Goto" -> { term.target }
      [] term.kind = "SwitchInt" /\ term.targets.kind = "If" ->
            { term.targets.if_block, term.targets.then_block }
      [] term.kind = "SwitchInt" /\ term.targets.kind = "SwitchInt" ->
            { term.targets.targets_map[i][2] : i \in 1..Len(term.targets.targets_map) }
                \cup { term.targets.otherwise }
      [] term.kind \in { "Drop", "Assert" } -> { term.target }
      [] term.kind = "Call" -> { b \in MirBlockIds : term.target = Some(b) }
      [] term.kind \in { "FalseEdge", "FalseUnwind" } -> { term.real_target }
      [] OTHER -> {}

\* The targets translate_terminator binds to `unwind: _` or only traces:
\* the cleanup block of Drop, Call, Assert and FalseUnwind, and the
\* imaginary target of FalseEdge.
UnwindTargets(term) ==
    CASE term.kind \in { "Drop", "Call", "Assert", "FalseUnwind" } ->
            { b \in MirBlockIds : term.unwind = Some(b) }
      [] term.kind = "FalseEdge" -> { term.imaginary_target }
      [] OTHER -> {}

InitMir == mir_edges = << >>

\* The terminator translate_terminator was just given is noted with its block.
ReadTerminator ==
    mir_edges' =
        (Unwrap(last').block_id :>
            [ real |-> RealTargets(Unwrap(last').mir_terminator),
              unwind |-> UnwindTargets(Unwrap(last').mir_terminator) ]) @@ mir_edges

(***************************************************************************)
(* translate_basic_block on one block with a full statement list.          *)
(***************************************************************************)
\* The kinds of hax::StatementKind that translate_statement matches
\* (Intrinsic is split into its Assume and CopyNonOverlapping forms).
AllMirStatementKinds ==
    { "Assign", "FakeRead", "PlaceMention", "SetDiscriminant", "StorageLive",
      "StorageDead", "Deinit", "Assume", "CopyNonOverlapping", "Retag",
      "AscribeUserType", "Coverage", "ConstEvalCounter", "Nop" }

BlockStatementLists == UNION { [1..n -> AllMirStatementKinds] : n \in 0..MaxBlockStmts }

\* The orders in which the blocks of a body get registered: the start block
\* first, no block twice.
RegistrationOrders ==
    { o \in UNION { [1..n -> MirBlockIds] : n \in 1..MaxMirBlocks } :
        /\ o[1] = START_BLOCK
        /\ \A i, j \in 1..Len(o) : o[i] = o[j] => i = j }

\* The context when the loop of translate_transparent_expression_body has
\* popped the last block of the order o: every block of o is registered
\* under its position, and the stack is empty.
PoppedCtx(o) == Ctx([ b \in Range(o) |-> (CHOOSE i \in 1..Len(o) : o[i] = b) - 1 ],
                    << >>, Len(o))

\* The blocks stored by then: each earlier block of o went to the next one.
StoredBefore(o) ==
    [ id \in 0..(Len(o) - 2) |-> BlockShape([ statements |-> << >>,
                                             terminator |-> Goto(id + 1) ]) ]

\* BodyTransCtx::translate_basic_block, whole.
TranslateBasicBlock ==
    /\ call = None
    /\ \E o \in RegistrationOrders :
       \E stmts \in BlockStatementLists :
       \E term \in MirTerminators :
       \E s_ok \in (IF StatementsHaveOperands(stmts) THEN BOOLEAN ELSE {TRUE}) :
       \E t_ok \in (IF TerminatorHasOperands(term) THEN BOOLEAN ELSE {TRUE}) :
         LET block_id == o[Len(o)]
             c0  == translate_basic_block_id(PoppedCtx(o), block_id)
             nid == BlockIdOf(c0, block_id)
             ss  == TranslateStatements(s_ok, stmts, Len(stmts))
             r   == translate_terminator(c0, t_ok, term)
             block == [ statements |-> ss.statements \o r.pushed,
                        terminator |-> r.terminator ]
             ok  == ss.res = "Ok" /\ r.res = "Ok"
         IN  call' = Some([ op |-> "translate_basic_block",
                            block_id |-> block_id,
                            mir_statements |-> stmts,
                            mir_terminator |-> term,
                            res |-> IF ss.res # "Ok" THEN ss.res ELSE r.res,
                            nid |-> nid,
                            block |-> IF ok THEN Some(block) ELSE None,
                            blocks_map |-> IF ss.res = "Ok" THEN r.ctx.blocks_map
                                           ELSE c0.blocks_map,
                            blocks_before |-> StoredBefore(o),
                            blocks |-> IF ok THEN push_block(StoredBefore(o), nid, block)
                                       ELSE StoredBefore(o) ])

(***************************************************************************)
(* The specifications.                                                     *)
(***************************************************************************)
vars == << transVars, hcVars, structVars, driverVars, declVars, callVars, mirVars >>

\* No body translated, nothing interned, no procedure handed over.
Init == InitTrans /\ InitHC /\ InitStruct /\ InitDriver /\ InitDecls /\ InitCalls /\ InitMir

\* The translation of one body; nothing else moves.
OnlyTrans == UNCHANGED << hcVars, structVars, driverVars, declVars, callVars, mirVars >>
NextTrans ==
    \/ RegisterStartBlock /\ OnlyTrans
    \/ TranslateBlockStatements /\ OnlyTrans
    \/ TranslateBlockTerminator /\ OnlyTrans
    \/ AssembleBody /\ OnlyTrans
SpecTrans == Init /\ [][NextTrans]_vars

\* Hash-consing on one thread; nothing else moves.
OnlyHC == UNCHANGED << transVars, structVars, driverVars, declVars, callVars, mirVars >>
NextHC ==
    \E t \in SeqThreads :
        \/ NewBegin(t) /\ OnlyHC
        \/ CloneHandle(t) /\ OnlyHC
        \/ DropHandle(t) /\ OnlyHC
        \/ WithInnerMutBegin(t) /\ OnlyHC
        \/ InternCheck(t) /\ OnlyHC
        \/ InternMakeTable(t) /\ OnlyHC
        \/ InternLookup(t) /\ OnlyHC
        \/ InternInsert(t) /\ OnlyHC
SpecHC == Init /\ [][NextHC]_vars

\* Hash-consing on several threads: every step of intern that takes or
\* releases a lock is a step another thread can interleave with.
\* The concurrent exploration: every thread of HCThreads runs new, drop and
\* with_inner_mut, each thread keeping its last slot empty.
OnlyHCConc ==
    /\ OnlyHC
    /\ \A t \in HCThreads : handles'[t][MaxHandles] = None
NextHCConc ==
    \E t \in HCThreads :
        \/ NewBegin(t) /\ OnlyHCConc
        \/ DropHandle(t) /\ OnlyHCConc
        \/ WithInnerMutBegin(t) /\ OnlyHCConc
        \/ InternCheck(t) /\ OnlyHCConc
        \/ InternMakeTable(t) /\ OnlyHCConc
        \/ InternLookup(t) /\ OnlyHCConc
        \/ InternInsert(t) /\ OnlyHCConc
SpecHCConc == Init /\ [][NextHCConc]_vars

\* Structuring one procedure, and a batch of procedures; nothing else moves.
OnlyStruct == UNCHANGED << transVars, hcVars, driverVars, declVars, callVars, mirVars >>
NextStruct ==
    \/ AddBlock /\ OnlyStruct
    \/ Structure /\ OnlyStruct
SpecStruct == Init /\ [][NextStruct]_vars

NextBatch ==
    \/ AddBlock /\ OnlyStruct
    \/ Structure /\ OnlyStruct
    \/ NextProcedure /\ OnlyStruct
SpecBatch == Init /\ [][NextBatch]_vars

\* One call of driver::translate; nothing else moves.
OnlyDriver == UNCHANGED << transVars, hcVars, structVars, declVars, callVars, mirVars >>
NextDriver ==
    \/ Translate /\ OnlyDriver
    \/ TranslateCrateToUllbc /\ OnlyDriver
    \/ RunUllbcPass /\ OnlyDriver
    \/ ExportUllbc /\ OnlyDriver
    \/ TranslateFunctions /\ OnlyDriver
    \/ RunLlbcPass /\ OnlyDriver
    \/ ExportLlbc /\ OnlyDriver
SpecDriver == Init /\ [][NextDriver]_vars

\* The declarations of a crate, one call each, and the printing of bodies.
OnlyDecls == UNCHANGED << transVars, hcVars, structVars, driverVars, callVars, mirVars >>
NextDecls ==
    \/ TranslateFunction /\ OnlyDecls
    \/ TranslateGlobal /\ OnlyDecls
    \/ FmtBody /\ OnlyDecls
SpecDecls == Init /\ [][NextDecls]_vars

\* One call of a helper on a command line.
OnlyCalls == UNCHANGED << transVars, hcVars, structVars, driverVars, declVars, mirVars >>
NextArgs ==
    \/ ArgValue /\ OnlyCalls
    \/ GetArgsSourceIndex /\ OnlyCalls
SpecArgs == Init /\ [][NextArgs]_vars

\* One checked construction of a scalar value.
NextScalar ==
    \/ FromUint /\ OnlyCalls
    \/ FromInt /\ OnlyCalls
SpecScalar == Init /\ [][NextScalar]_vars

NextBlock ==
    \/ TranslateBasicBlock /\ OnlyCalls
SpecBlock == Init /\ [][NextBlock]_vars

\* The translation of one body, with the MIR edges it reads noted.
OnlyTransMir == UNCHANGED << hcVars, structVars, driverVars, declVars, callVars >>
NextTransMir ==
    \/ RegisterStartBlock /\ UNCHANGED mirVars /\ OnlyTransMir
    \/ TranslateBlockStatements /\ UNCHANGED mirVars /\ OnlyTransMir
    \/ TranslateBlockTerminator /\ ReadTerminator /\ OnlyTransMir
    \/ AssembleBody /\ UNCHANGED mirVars /\ OnlyTransMir
SpecTransMir == Init /\ [][NextTransMir]_vars

(***************************************************************************)
(* Claims about the MIR -> ULLBC translation.                              *)
(***************************************************************************)
\* The block graph at hand: the returned body once there is one, the blocks
\* translated so far before that. A function from block ids to block shapes.
BodyVec == Unwrap(body).body
GraphNow ==
    IF IsSome(body) THEN [ i \in 0..(Len(BodyVec) - 1) |-> BodyVec[i + 1] ] ELSE blocks

\* The block ids reachable from the ids in S by Goto and Switch targets.
RECURSIVE ReachFrom(_, _)
ReachFrom(g, S) ==
    LET N == S \cup UNION { g[i].targets : i \in S \cap DOMAIN g }
    IN  IF N = S THEN S ELSE ReachFrom(g, N)

\* C7: every block of a returned body is reachable from the entry block 0
\* by Goto and Switch targets; and while the body is translated, a MIR block
\* has an id only if it is the start block or a target of a translated block.
C7_BodyReachable ==
    /\ IsSome(body) =>
          \A i \in DOMAIN GraphNow : i \in ReachFrom(GraphNow, { START_BLOCK_ID })
    /\ tpc \in {"blocks", "terminator", "done"} =>
          \A b \in DOMAIN blocks_map :
              \/ b = START_BLOCK
              \/ \E i \in DOMAIN GraphNow : blocks_map[b] \in GraphNow[i].targets

\* A body of three blocks was returned, its ids not those of the MIR.
C7_Witness ==
    /\ tpc = "done"
    /\ Len(BodyVec) = 3
    /\ \E b \in DOMAIN blocks_map : blocks_map[b] # b

\* C8: a returned body has the ids 0..n-1, the entry block at 0, and every
\* target it names is one of them; blocks are stored in the order of their
\* ids, and neither sanity assertion (start id, id == new_id) fails.
C8_DenseClosedIds ==
    /\ tpc \notin {"panic_start", "panic_id"}
    /\ tpc = "terminator" => Unwrap(cur).nid = Cardinality(DOMAIN blocks)
    /\ IsSome(body) =>
          /\ Len(BodyVec) = blocks_counter
          /\ DOMAIN blocks_map # {} /\ blocks_map[START_BLOCK] = 0
          /\ { blocks_map[b] : b \in DOMAIN blocks_map } = 0..(Len(BodyVec) - 1)
          /\ \A i \in 1..Len(BodyVec) :
                \A t \in BodyVec[i].targets : t \in 0..(Len(BodyVec) - 1)

\* A body of three blocks with a switch in it was returned.
C8_Witness ==
    /\ tpc = "done"
    /\ Len(BodyVec) = 3
    /\ \E i \in 1..3 : BodyVec[i].kind = "Switch" /\ Cardinality(BodyVec[i].targets) = 3

\* The value v read at the integer type ty.
SameValueAtType(ty, v, w) ==
    /\ (w - v) % 256 = 0
    /\ IF ty = "U8" THEN w \in 0..255 ELSE w \in (-128)..127

LastIsSwitch ==
    /\ IsSome(last)
    /\ Unwrap(last).res = "Ok"
    /\ Unwrap(last).mir_terminator.kind = "SwitchInt"

\* C9: the translation of a MIR switch keeps the arms in their order: same
\* length, arm i holds the value of MIR arm i and the id of MIR arm i's
\* target, the otherwise target is translated, and a two-way If keeps its two
\* targets in place.
C9_SwitchArmOrder ==
    LastIsSwitch =>
        LET m == Unwrap(last).mir_terminator.targets
            t == Unwrap(last).block.terminator
        IN  /\ t.kind = "Switch"
            /\ t.targets.kind = m.kind
            /\ m.kind = "If" =>
                  /\ t.targets.if_block = blocks_map[m.if_block]
                  /\ t.targets.then_block = blocks_map[m.then_block]
            /\ m.kind = "SwitchInt" =>
                  /\ Len(t.targets.targets_map) = Len(m.targets_map)
                  /\ \A i \in 1..Len(m.targets_map) :
                        /\ SameValueAtType(m.ty, m.targets_map[i][1],
                                           t.targets.targets_map[i][1])
                        /\ t.targets.targets_map[i][2] = blocks_map[m.targets_map[i][2]]
                  /\ t.targets.otherwise = blocks_map[m.otherwise]
                  /\ t.targets.ty = m.ty
            /\ \A a, b \in DOMAIN blocks_map : blocks_map[a] = blocks_map[b] => a = b

\* A two-arm switch was translated whose arms go to different blocks, one of
\* them with an id that is not its MIR index, and whose first value changes
\* when read at the discriminant type.
C9_Witness ==
    /\ LastIsSwitch
    /\ LET m == Unwrap(last).mir_terminator.targets
       IN  /\ m.kind = "SwitchInt"
           /\ Len(m.targets_map) = 2
           /\ m.targets_map[1][2] # m.targets_map[2][2]
           /\ blocks_map[m.targets_map[1][2]] # m.targets_map[1][2]
           /\ m.ty = "I8"
           /\ Unwrap(last).block.terminator.targets.targets_map[1][1] = -1

(***************************************************************************)
(* Claims about hash-consing.                                              *)
(***************************************************************************)
\* The handles held when no call is in progress, as (thread, slot) pairs.
HandlesAtRest ==
    { h \in HCThreads \X Slots :
        th[h[1]].pc = "idle" /\ handles[h[1]][h[2]] # None }
PtrOf(h) == Unwrap(handles[h[1]][h[2]])

\* C10: on one thread, between calls, two handles with equal inner values
\* point to the same allocation (so the pointer hash agrees with the value
\* equality), and every handle is the interned Arc of its value.
C10_EqualValuesSameArc ==
    /\ \A a, b \in HandlesAtRest :
          heap[PtrOf(a)] = heap[PtrOf(b)] => PtrOf(a) = PtrOf(b)
    /\ \A a \in HandlesAtRest :
          /\ IsSome(interned)
          /\ heap[PtrOf(a)] \in DOMAIN Unwrap(interned)
          /\ Unwrap(interned)[heap[PtrOf(a)]] = PtrOf(a)

\* with_inner_mut has just left a handle whose value another handle already
\* had: both are at rest, on the same allocation.
C10_Witness ==
    /\ th[1] = Done("with_inner_mut")
    /\ handles[1][1] # None /\ handles[1][2] # None
    /\ handles[1][1] = handles[1][2]
    /\ IsSome(interned) /\ Cardinality(DOMAIN Unwrap(interned)) = MaxVal
    /\ heap[Unwrap(handles[1][1])] = MaxVal

(***************************************************************************)
(* Claims about the structuring engine.                                    *)
(***************************************************************************)
Outcome == Unwrap(result)
Structured == spc = "structured" /\ Outcome.kind = "Tree"

\* What a run shows: the statements executed, the decisions taken, and the
\* outcome (return, abort with its reason, divergence). A run is followed
\* for MaxTrace items and then cut.
Item(ev, b, i) == [ ev |-> ev, block |-> b, arm |-> i ]
Executed(b) == Item("statements", b, 0)
Decided(b, i) == Item("decision", b, i)
Returned == Item("return", 0, 0)
Aborted(reason) == Item(reason, 0, 0)
Diverged == Item("divergence", 0, 0)
CutHere == Item("cut", 0, 0)
Prefixed(item, S) == { << item >> \o t : t \in S }

\* The runs of the unstructured graph from block b, with k items left and
\* idle steps taken since the last item; more idle steps than blocks is a
\* cycle that shows nothing.
RECURSIVE RunGraph(_, _, _, _)
RECURSIVE RunTerminator(_, _, _, _)
RunGraph(g, b, k, idle) ==
    IF g[b].stmts
    THEN IF k = 0 THEN { << CutHere >> }
         ELSE Prefixed(Executed(b), RunTerminator(g, b, k - 1, 0))
    ELSE RunTerminator(g, b, k, idle)

RunTerminator(g, b, k, idle) ==
    LET t == g[b].term
        succ == Successors(t)
    IN  IF k = 0 THEN { << CutHere >> }
        ELSE CASE t.kind = "Return" -> { << Returned >> }
               [] t.kind = "Abort" -> { << Aborted(t.reason) >> }
               [] t.kind = "Goto" ->
                     IF idle >= NumBlocks(g) THEN { << Diverged >> }
                     ELSE RunGraph(g, t.target, k, idle + 1)
               [] OTHER ->
                     UNION { Prefixed(Decided(b, i), RunGraph(g, succ[i], k - 1, 0)) :
                               i \in 1..Len(succ) }

GraphObservations(g) == RunGraph(g, ENTRY, MaxTrace, 0)

\* The direct-style interpreter of the structured tree: Sequence runs in
\* order, If and Switch pick one arm, Loop repeats its body until a Break.
\* A partial run is what it showed, how it left (fall, break, continue, end)
\* and the items left.
Partial(obs, out, level, k) == [ obs |-> obs, out |-> out, level |-> level, k |-> k ]
Ended(obs) == Partial(obs, "end", 0, 0)
After(item, R) == { [ r EXCEPT !.obs = << item >> \o r.obs ] : r \in R }

RECURSIVE RunSequence(_, _, _)
RECURSIVE RunLoop(_, _)
RECURSIVE RunRest(_, _, _)
RunRest(R, tree, i) ==
    UNION { IF r.out = "fall"
            THEN { [ q EXCEPT !.obs = r.obs \o q.obs ] : q \in RunSequence(tree, i, r.k) }
            ELSE { r } : r \in R }

RunLoop(body_tree, k) ==
    UNION { CASE r.out = "end" -> { r }
              [] r.out = "break" /\ r.level = 0 -> { [ r EXCEPT !.out = "fall" ] }
              [] r.out \in { "break", "continue" } /\ r.level > 0 ->
                    { [ r EXCEPT !.level = r.level - 1 ] }
              [] OTHER ->
                    IF r.k = k
                    THEN { Ended(IF k = 0 THEN << CutHere >> ELSE << Diverged >>) }
                    ELSE { [ q EXCEPT !.obs = r.obs \o q.obs ] : q \in RunLoop(body_tree, r.k) }
          : r \in RunSequence(body_tree, 1, k) }

RunSequence(tree, i, k) ==
    IF i > Len(tree) THEN { Partial(<< >>, "fall", 0, k) }
    ELSE LET nd == tree[i]
         IN  CASE nd.node = "Break" -> { Partial(<< >>, "break", nd.level, k) }
               [] nd.node = "Continue" -> { Partial(<< >>, "continue", nd.level, k) }
               [] nd.node = "Loop" -> RunRest(RunLoop(nd.body_tree, k), tree, i + 1)
               [] k = 0 -> { Ended(<< CutHere >>) }
               [] nd.node = "Stmt" ->
                     After(Executed(nd.block), RunSequence(tree, i + 1, k - 1))
               [] nd.node = "Return" -> { Ended(<< Returned >>) }
               [] nd.node = "Abort" -> { Ended(<< Aborted(nd.reason) >>) }
               [] nd.node = "If" ->
                     RunRest(After(Decided(nd.cond, 1), RunSequence(nd.then_tree, 1, k - 1))
                             \cup After(Decided(nd.cond, 2),
                                        RunSequence(nd.else_tree, 1, k - 1)),
                             tree, i + 1)
               [] nd.node = "Switch" ->
                     RunRest(UNION { After(Decided(nd.discr, a),
                                           RunSequence(nd.arms[a][2], 1, k - 1)) :
                                       a \in 1..Len(nd.arms) }
                             \cup After(Decided(nd.discr, Len(nd.arms) + 1),
                                        RunSequence(nd.default_tree, 1, k - 1)),
                             tree, i + 1)

TreeObservations(tree) ==
    { IF r.out = "end" THEN r.obs ELSE Append(r.obs, Item(r.out, r.level, 0)) :
        r \in RunSequence(tree, 1, MaxTrace) }

\* A multi-entry loop: two blocks, neither dominating the other, that reach
\* each other without passing through a block that dominates both.
MultiEntryPair(g, dom, x, y) ==
    /\ x # y /\ x \notin dom[y] /\ y \notin dom[x]
    /\ y \in ReachAvoiding(g, { x }, dom[x] \cap dom[y])
    /\ x \in ReachAvoiding(g, { y }, dom[x] \cap dom[y])
MultiEntryBlocks(g) ==
    LET dom == Dominators(g)
    IN  { x \in DOMAIN g : \E y \in DOMAIN g : MultiEntryPair(g, dom, x, y) }

\* C1: every reducible graph gets a tree, and the runs of the graph and the
\* runs of the tree show the same statements in the same order, under the
\* same decisions, with the same outcome.
C1_SemanticEquivalence ==
    (spc = "structured" /\ MultiEntryBlocks(graph) = {}) =>
        /\ Outcome.kind = "Tree"
        /\ GraphObservations(graph) = TreeObservations(Outcome.tree)

\* A run went twice round a loop and then returned.
C1_Witness ==
    /\ Structured
    /\ LoopHeaders(graph, Dominators(graph)) # {}
    /\ \E t \in GraphObservations(graph) :
          /\ t[Len(t)] = Returned
          /\ \E i, k \in 1..Len(t) :
                i < k /\ t[i].ev = "statements" /\ t[i] = t[k]

\* The loop nesting is respected below depth: every Break(n)/Continue(n)
\* has n < depth at its position.
RECURSIVE LevelsValid(_, _)
LevelsValid(tree, depth) ==
    \A i \in 1..Len(tree) :
        LET nd == tree[i]
        IN  CASE nd.node \in { "Break", "Continue" } -> nd.level < depth
              [] nd.node = "Loop" -> LevelsValid(nd.body_tree, depth + 1)
              [] nd.node = "If" ->
                    LevelsValid(nd.then_tree, depth) /\ LevelsValid(nd.else_tree, depth)
              [] nd.node = "Switch" ->
                    /\ \A k \in 1..Len(nd.arms) : LevelsValid(nd.arms[k][2], depth)
                    /\ LevelsValid(nd.default_tree, depth)
              [] OTHER -> TRUE

\* C2: in every tree the engine produces, each Break(n) and Continue(n)
\* has n strictly below the number of enclosing Loop nodes.
C2_LevelValidity == Structured => LevelsValid(Outcome.tree, 0)

\* Some Break or Continue of the tree has level n.
RECURSIVE HasLevel(_, _)
HasLevel(tree, n) ==
    \E i \in 1..Len(tree) :
        LET nd == tree[i]
        IN  CASE nd.node \in { "Break", "Continue" } -> nd.level = n
              [] nd.node = "Loop" -> HasLevel(nd.body_tree, n)
              [] nd.node = "If" -> HasLevel(nd.then_tree, n) \/ HasLevel(nd.else_tree, n)
              [] nd.node = "Switch" ->
                    \/ \E k \in 1..Len(nd.arms) : HasLevel(nd.arms[k][2], n)
                    \/ HasLevel(nd.default_tree, n)
              [] OTHER -> FALSE

\* A tree with nested loops, where a jump leaves the inner loop for the outer.
C2_Witness == Structured /\ HasLevel(Outcome.tree, 1) /\ HasLevel(Outcome.tree, 0)

\* C4: a procedure whose graph has a multi-entry loop ends in a structuring
\* error that names blocks of that loop, two entries of it among them; it
\* gets no tree, and the batch goes on to its next procedure.
C4_IrreducibleRejected ==
    (spc = "structured" /\ MultiEntryBlocks(graph) # {}) =>
        /\ Outcome.kind = "Error"
        /\ Outcome.blocks \subseteq MultiEntryBlocks(graph)
        /\ LET dom == Dominators(graph)
           IN  \E x, y \in Outcome.blocks : MultiEntryPair(graph, dom, x, y)
        /\ "tree" \notin DOMAIN Outcome
        /\ (Len(batch) < MaxProcs - 1 => ENABLED NextProcedure)

\* A procedure was structured after an earlier one of the batch was rejected.
C4_Witness ==
    /\ batch = << "Unstructurable" >>
    /\ Structured

\* The statements of block b, as they appear in a tree.
StmtsOf(b) == IF graph[b].stmts THEN << Stmt(b) >> ELSE << >>
ShapeOf(g) == [ b \in DOMAIN g |-> g[b].term ]

\* The diamond A -(cond)-> {B, C}, B -> D, C -> D, D -> Return.
DiamondShape ==
    0 :> [ kind |-> "If", then_block |-> 1, else_block |-> 2 ]
    @@ 1 :> [ kind |-> "Goto", target |-> 3 ]
    @@ 2 :> [ kind |-> "Goto", target |-> 3 ]
    @@ 3 :> [ kind |-> "Return" ]

\* C5: the diamond is structured as A's statements, If(cond, B's statements,
\* C's statements), D's statements once, Return; no Loop, Break or Continue.
C5_DiamondJoinElided ==
    (spc = "structured" /\ ShapeOf(graph) = DiamondShape) =>
        /\ Outcome.kind = "Tree"
        /\ Outcome.tree = StmtsOf(0) \o << IfNode(0, StmtsOf(1), StmtsOf(2)) >>
                             \o StmtsOf(3) \o << ReturnNode >>

\* The diamond with statements in B, C and D has been structured.
C5_Witness ==
    /\ spc = "structured" /\ ShapeOf(graph) = DiamondShape
    /\ graph[1].stmts /\ graph[2].stmts /\ graph[3].stmts

\* The loop A -(cond)-> {B, C}, B -> A, C -> Return.
LoopShape ==
    0 :> [ kind |-> "If", then_block |-> 1, else_block |-> 2 ]
    @@ 1 :> [ kind |-> "Goto", target |-> 0 ]
    @@ 2 :> [ kind |-> "Return" ]

\* C6: the single-back-edge loop is structured as
\* Loop(A's statements, If(cond, [B's statements, Continue(0)], Break(0))),
\* then C's statements and the Return after the Loop.
C6_LoopSynthesis ==
    (spc = "structured" /\ ShapeOf(graph) = LoopShape) =>
        /\ Outcome.kind = "Tree"
        /\ Outcome.tree =
             << LoopNode(StmtsOf(0)
                         \o << IfNode(0, StmtsOf(1) \o << ContinueNode(0) >>,
                                         << BreakNode(0) >>) >>) >>
             \o StmtsOf(2) \o << ReturnNode >>

\* The loop with statements in B only: the tree is exactly
\* Loop(If(cond, [B's statements, Continue(0)], Break(0))), Return.
C6_Witness ==
    /\ spc = "structured" /\ ShapeOf(graph) = LoopShape
    /\ ~graph[0].stmts /\ graph[1].stmts /\ ~graph[2].stmts
    /\ Outcome.tree = << LoopNode(<< IfNode(0, << Stmt(1), ContinueNode(0) >>,
                                                << BreakNode(0) >>) >>),
                         ReturnNode >>

(***************************************************************************)
(* Claims about hash-consing under concurrency.                            *)
(***************************************************************************)
\* C11: whatever the interleaving of new / with_inner_mut on several
\* threads, two handles at rest with equal inner values point to the same
\* allocation.
C11_ConcurrentUniqueness ==
    \A a, b \in HandlesAtRest :
        heap[PtrOf(a)] = heap[PtrOf(b)] => PtrOf(a) = PtrOf(b)

(***************************************************************************)
(* Claims about the pass pipeline of driver::translate.                    *)
(***************************************************************************)
\* The positions of a call in the trace of translate.
Positions(name) == { i \in 1..Len(passes) : passes[i] = name }
Ran(name) == Positions(name) # {}
\* Every occurrence of a precedes every occurrence of b.
Precedes(a, b) == \A i \in Positions(a), j \in Positions(b) : i < j
Exports == { "CrateData::new_ullbc", "CrateData::new_llbc" }
MicroPasses ==
    { UllbcPasses[i] : i \in 2..Len(UllbcPasses) }
        \cup { LlbcPasses[i] : i \in 1..Len(LlbcPasses) }

\* C12: ullbc_to_llbc::translate_functions runs at most once, only after
\* translate_crate_to_ullbc returned Ok and reorder_declarations ran, and
\* before the exported CrateData is built; with options.ullbc it never runs,
\* no micro-pass of the LLBC branch runs and the exported data is ULLBC; when
\* translate_crate_to_ullbc fails, nothing runs after it and translate
\* returns Err.
C12_StructuringOnceInOrder ==
    LET tf == "ullbc_to_llbc::translate_functions" IN
    /\ Cardinality(Positions(tf)) <= 1
    /\ Ran(tf) =>
         /\ ctx # None
         /\ Ran("translate_crate_to_ullbc") /\ Precedes("translate_crate_to_ullbc", tf)
         /\ Ran("reorder_declarations") /\ Precedes("reorder_declarations", tf)
         /\ \A e \in Exports : Precedes(tf, e)
    /\ (dpc.at # "idle" /\ options.ullbc) =>
         /\ ~Ran(tf)
         /\ \A i \in 1..Len(LlbcPasses) : ~Ran(LlbcPasses[i])
         /\ ~Ran("CrateData::new_llbc")
         /\ (ret # None /\ Unwrap(ret).res = "Ok") => Unwrap(ret).data = "ullbc"
    /\ (Ran("translate_crate_to_ullbc") /\ ctx = None) =>
         /\ passes = << "translate_crate_to_ullbc" >>
         /\ ret = Some([ res |-> "Err", data |-> "none" ])
    /\ (ret # None /\ Unwrap(ret).res = "Ok" /\ ~options.ullbc) =>
         /\ Ran(tf)
         /\ Unwrap(ret).data = "llbc"

\* A call without options.ullbc that structured the bodies and exported LLBC.
C12_Witness ==
    /\ ~options.ullbc
    /\ Ran("ullbc_to_llbc::translate_functions")
    /\ Ran("CrateData::new_llbc")
    /\ ret = Some([ res |-> "Ok", data |-> "llbc" ])

\* C13: remove_dynamic_checks runs before simplify_constants; in the LLBC
\* branch remove_dynamic_checks and remove_arithmetic_overflow_checks both
\* run before reconstruct_asserts, remove_drop_never before
\* remove_unused_locals, and remove_nops after every other micro-pass; no
\* pass runs twice, and a call that returned Ok ran each pass of its branch.
C13_MicroPassOrder ==
    /\ Precedes("remove_dynamic_checks", "simplify_constants")
    /\ Precedes("remove_dynamic_checks", "reconstruct_asserts")
    /\ Precedes("remove_arithmetic_overflow_checks", "reconstruct_asserts")
    /\ Precedes("remove_drop_never", "remove_unused_locals")
    /\ \A p \in MicroPasses \ { "remove_nops" } : Precedes(p, "remove_nops")
    /\ \A p \in MicroPasses : Cardinality(Positions(p)) <= 1
    /\ Ran("reconstruct_asserts") =>
         Ran("remove_dynamic_checks") /\ Ran("remove_arithmetic_overflow_checks")
    /\ Ran("remove_unused_locals") => Ran("remove_drop_never")
    /\ Ran("simplify_constants") => Ran("remove_dynamic_checks")
    /\ Ran("remove_nops") => \A p \in MicroPasses : Ran(p)
    /\ (ret # None /\ Unwrap(ret).res = "Ok") =>
         /\ Ran("remove_dynamic_checks") /\ Ran("simplify_constants")
         /\ ~options.ullbc => \A p \in MicroPasses : Cardinality(Positions(p)) = 1

\* A finished LLBC pipeline: remove_nops ran and the crate was exported.
C13_Witness ==
    /\ ret = Some([ res |-> "Ok", data |-> "llbc" ])
    /\ Ran("reconstruct_asserts")
    /\ passes[Len(passes) - 1] = "remove_nops"

(***************************************************************************)
(* Claims about declarations and their bodies.                             *)
(***************************************************************************)
\* C14: when translate_body returns an error for a function or a global
\* whose signature translated, the call returns Ok with a declaration whose
\* body is a freshly reserved, empty slot of the bodies vector, and the
\* bodies stored before are unchanged.
C14_FailingBodyKeepsDeclaration ==
    (decl # None /\ Unwrap(decl).body_res = "Err") =>
        LET d == Unwrap(decl) IN
        /\ d.res = "Ok"
        /\ d.body = Len(d.before)
        /\ Len(bodies) = Len(d.before) + 1
        /\ bodies[d.body + 1] = None
        /\ SubSeq(bodies, 1, Len(d.before)) = d.before

\* A global whose body failed, translated after a body was stored.
C14_Witness ==
    /\ decl # None
    /\ Unwrap(decl).body_res = "Err"
    /\ Unwrap(decl).item = "global"
    /\ Len(bodies) = 2
    /\ bodies[1] # None

\* C17: an assembled body holds the locals in MIR declaration order, with
\* arg_count the number of signature inputs for a function and 0 for a
\* global; fmt_with_ctx marks the local of index 0 as the return value, the
\* locals of index 1..=arg_count as arguments, and every other local as a
\* named or anonymous local.
C17_LocalsLayout ==
    /\ (decl # None /\ Unwrap(decl).body_res = "Body") =>
         LET d == Unwrap(decl)
             b == Unwrap(bodies[d.body + 1])
         IN  /\ Len(b.locals) = Len(d.local_decls)
             /\ \A i \in 1..Len(b.locals) :
                  /\ b.locals[i].index = i - 1
                  /\ b.locals[i].name = d.local_decls[i]
             /\ b.arg_count = IF d.item = "fun" THEN d.inputs ELSE 0
    /\ formatted # None =>
         LET f == Unwrap(formatted)
             b == Unwrap(bodies[f.id + 1])
         IN  /\ Len(f.lines) = Len(b.locals)
             /\ \A i \in 1..Len(f.lines) :
                  LET idx == b.locals[i].index
                      c   == f.lines[i].comment
                  IN  /\ idx = 0 <=> c[1] = "return"
                      /\ (1 <= idx /\ idx <= b.arg_count) <=> c = << "arg", idx >>
                      /\ (idx > b.arg_count /\ b.locals[i].name # None)
                            <=> c[1] = "local"
                      /\ (idx > b.arg_count /\ idx # 0 /\ b.locals[i].name = None)
                            <=> c[1] = "anonymous local"

\* A printed body whose last argument is its last local before a plain local.
C17_Witness ==
    /\ formatted # None
    /\ LET b == Unwrap(bodies[Unwrap(formatted).id + 1]) IN
       /\ b.arg_count = 1
       /\ Len(b.locals) = 3
       /\ Unwrap(formatted).lines[2].comment = << "arg", 1 >>
       /\ Unwrap(formatted).lines[3].comment[1] = "anonymous local"

(***************************************************************************)
(* Claims about the command-line helpers.                                  *)
(***************************************************************************)
\* The value the i-th argument gives to find_arg, if it is written
\* find_arg=value, or find_arg with a next argument.
OccValue(args, i, find_arg) ==
    LET sp == splitn2(args[i]) IN
    IF sp.first # find_arg THEN None
    ELSE IF sp.rest # None THEN sp.rest
    ELSE IF i < Len(args) THEN Some(args[i + 1])
    ELSE None

\* The value of the first position of a set that gives find_arg a value
\* that pred accepts.
FirstAccepted(positions, args, find_arg, pred) ==
    LET hits == { i \in positions :
                     /\ OccValue(args, i, find_arg) # None
                     /\ Unwrap(OccValue(args, i, find_arg)) \in pred }
    IN  IF hits = {} THEN None
        ELSE OccValue(args, CHOOSE i \in hits : \A j \in hits : i <= j, find_arg)

\* The arguments read as options, from the i-th on: the argument after a
\* bare find_arg is its value and is not read as an option.
RECURSIVE OptionPositions(_, _, _)
OptionPositions(args, i, find_arg) ==
    IF i > Len(args) THEN {}
    ELSE { i } \cup OptionPositions(args, IF args[i] = find_arg THEN i + 2 ELSE i + 1,
                                    find_arg)

IsArgValue == call # None /\ Unwrap(call).fn = "arg_value"

\* C15 (as stated): arg_value returns Some(value) for the first argument
\* written find_arg=value, or find_arg followed by value, whose value
\* satisfies pred, and None exactly when there is no such argument.
C15_FirstOccurrence ==
    IsArgValue =>
        LET c == Unwrap(call) IN
        c.ret = FirstAccepted(1..Len(c.args), c.args, c.find_arg, c.pred)

\* C15 (amended): the same, over the arguments that are read as options:
\* an argument taken as the value of a bare find_arg before it is skipped.
C15_FirstOccurrenceAmongOptions ==
    IsArgValue =>
        LET c == Unwrap(call) IN
        c.ret = FirstAccepted(OptionPositions(c.args, 1, c.find_arg), c.args,
                              c.find_arg, c.pred)

\* A call where the second "a" is the rejected value of the first, so that
\* the "v" after it is no value of an option: the result is None.
C15_Witness ==
    /\ IsArgValue
    /\ Unwrap(call).args = << << "a" >>, << "a" >>, << "v" >> >>
    /\ Unwrap(call).find_arg = << "a" >>
    /\ Unwrap(call).pred = { << "v" >> }
    /\ Unwrap(call).ret = None

\* The argument ends in ".rs".
EndsInRs(str) ==
    Len(str) >= 3 /\ SubSeq(str, Len(str) - 2, Len(str)) = << ".", "r", "s" >>

\* C16: get_args_source_index returns Some(i) when argument i is the only
\* one whose name ends in .rs, None when there is none, and fails its
\* assertion when there are two or more; an argument that holds ".rs"
\* without ending in it does not count.
C16_SourceIndex ==
    (call # None /\ Unwrap(call).fn = "get_args_source_index") =>
        LET c == Unwrap(call)
            sources == { i \in 0..(Len(c.args) - 1) : EndsInRs(c.args[i + 1]) }
        IN  /\ Cardinality(sources) >= 2 <=> c.ret.res = "Panic"
            /\ Cardinality(sources) = 0 => c.ret = [ res |-> "Ok", index |-> None ]
            /\ \A i \in sources :
                 sources = { i } => c.ret = [ res |-> "Ok", index |-> Some(i) ]

(***************************************************************************)
(* Claims about scalar values.                                             *)
(***************************************************************************)
\* MAX(ty) and MIN(ty) of an integer type of the given width.
MaxOf(ty, bits) == IF ty \in UnsignedTys THEN Num(1, bits, -1) ELSE Num(1, bits - 1, -1)
MinOf(ty, bits) == IF ty \in UnsignedTys THEN Num(0, 0, 0) ELSE Num(-1, bits - 1, 0)

\* C18: from_uint(ty, v) returns Ok exactly when ty is unsigned and
\* v <= MAX(ty), and then stores v itself; from_int(ty, v) returns Ok
\* exactly when ty is signed and MIN(ty) <= v <= MAX(ty), and then stores v;
\* in every other case they return Err, and they never panic.
C18_CheckedScalarConstruction ==
    (call # None /\ Unwrap(call).fn \in { "from_uint", "from_int" }) =>
        LET c    == Unwrap(call)
            bits == Bits(c.ty, c.usize_bits)
            fits == /\ c.ty \in (IF c.fn = "from_uint" THEN UnsignedTys ELSE SignedTys)
                    /\ Le(MinOf(c.ty, bits), c.v)
                    /\ Le(c.v, MaxOf(c.ty, bits))
        IN  /\ c.ret.res # "Panic"
            /\ c.ret.res = "Ok" <=> fits
            /\ c.ret.res = "Ok" => c.ret.value = c.v /\ c.ret.ty = c.ty
            /\ ~fits => c.ret.res = "Err"

\* from_int(I8, -2^7) stores i8::MIN itself.
C18_Witness ==
    /\ call # None
    /\ Unwrap(call).fn = "from_int"
    /\ Unwrap(call).ty = "I8"
    /\ Unwrap(call).v = Num(-1, 7, 0)
    /\ Unwrap(call).ret = ScalarRes("Ok", "I8", Num(-1, 7, 0))

(***************************************************************************)
(* Claims about the translation of terminators.                            *)
(***************************************************************************)
UnsupportedTerminators ==
    { "UnwindResume", "UnwindTerminate", "InlineAsm", "CoroutineDrop", "TailCall",
      "Yield" }

\* The block translated last pushed exactly these statements after the
\* translated statements of the MIR block, and ends with this terminator.
Desugared(l, pushed, terminator) ==
    /\ l.block.statements = l.translated \o pushed
    /\ l.block.terminator = terminator

CallShape ==
    (IsSome(last) /\ Unwrap(last).res \in { "Ok", "Panic" }
                  /\ Unwrap(last).mir_terminator.kind = "Call") =>
        LET l == Unwrap(last)
            t == l.mir_terminator
        IN  /\ l.res = "Panic" => t.fun = "Panic"
            /\ (l.res = "Ok" /\ t.fun = "Panic") =>
                 /\ t.target = None
                 /\ Desugared(l, << >>, [ kind |-> "Abort", reason |-> "Panic" ])
            /\ (l.res = "Ok" /\ t.fun # "Panic" /\ t.target = None) =>
                 Desugared(l, << "Call" >>,
                           [ kind |-> "Abort", reason |-> "UndefinedBehavior" ])
            /\ (l.res = "Ok" /\ t.fun # "Panic" /\ IsSome(t.target)) =>
                 Desugared(l, << "Call" >>, Goto(blocks_map[Unwrap(t.target)]))

RECURSIVE RealReach(_)
RealReach(S) ==
    LET N == S \cup UNION { mir_edges[b].real : b \in S \cap DOMAIN mir_edges }
    IN  IF N = S THEN S ELSE RealReach(N)

\* The unwind and imaginary targets read so far.
UnwindSeen == UNION { mir_edges[b].unwind : b \in DOMAIN mir_edges }

\* C21: the unwind target of Drop, Call, Assert and FalseUnwind and the
\* imaginary target of FalseEdge are never registered as block ids: a MIR
\* block has an id only if it is the start block or a real target of a
\* terminator read before; so a block that the start block reaches only
\* through such edges has no block in a returned body, and no terminator of
\* the body targets it.
C21_UnwindEdgesNotFollowed ==
    /\ \A b \in DOMAIN blocks_map :
          \/ b = START_BLOCK
          \/ \E m \in DOMAIN mir_edges : b \in mir_edges[m].real
    /\ IsSome(body) =>
          /\ DOMAIN blocks_map = RealReach({ START_BLOCK })
          /\ DOMAIN mir_edges = RealReach({ START_BLOCK })
          /\ Len(BodyVec) = Cardinality(RealReach({ START_BLOCK }))
          /\ \A u \in UnwindSeen \ RealReach({ START_BLOCK }) :
                /\ u \notin DOMAIN blocks_map
                /\ u \notin DOMAIN mir_edges
          /\ \A i \in 1..Len(BodyVec) : \A t \in BodyVec[i].targets :
                \E b \in RealReach({ START_BLOCK }) : blocks_map[b] = t

\* A returned body of two blocks, one of which has a real target and an
\* unwind or imaginary target that got no block id.
C21_Witness ==
    /\ IsSome(body)
    /\ Len(BodyVec) = 2
    /\ \E m \in DOMAIN mir_edges :
          /\ mir_edges[m].unwind # {}
          /\ mir_edges[m].real # {}
          /\ mir_edges[m].unwind \cap DOMAIN blocks_map = {}

\* C23: translate_body_aux gives Opaque when the item is opaque or has no
\* MIR, and translate_function does not call translate_body for a trait
\* method declaration without default; in each case the declaration is
\* returned with the body Opaque (written -1), no local or block having
\* been translated, and the bodies vector is as it was.
C23_OpaqueBodies ==
    (decl # None /\ Unwrap(decl).res # "Err") =>
        LET d == Unwrap(decl) IN
        /\ d.kind = "TraitDecl" =>
              /\ d.body_res = "NotCalled"
              /\ d.res = "Ok" /\ d.body = -1 /\ bodies = d.before
        /\ (d.kind # "TraitDecl" /\ (d.opaque \/ ~d.has_mir)) =>
              /\ d.body_res = "Opaque"
              /\ d.res = "Ok" /\ d.body = -1 /\ bodies = d.before
        /\ d.body_res \in { "Opaque", "NotCalled" } =>
              \/ d.kind = "TraitDecl"
              \/ d.opaque \/ ~d.has_mir

\* A function without MIR translated after a body was stored: the vector
\* still holds that one body.
C23_Witness ==
    /\ decl # None
    /\ Unwrap(decl).item = "fun"
    /\ Unwrap(decl).kind = "Regular"
    /\ ~Unwrap(decl).has_mir
    /\ Unwrap(decl).body_res = "Opaque"
    /\ Len(bodies) = 1
    /\ bodies[1] # None


(***************************************************************************)
(* Claims on translate_basic_block alone (SpecBlock).                      *)
(***************************************************************************)
\* The statement kinds that leave no statement in the translated block.
RemovedStatementKinds ==
    { "StorageLive", "Retag", "AscribeUserType", "Coverage", "ConstEvalCounter",
      "Nop" }

RECURSIVE KeptStatements(_)
KeptStatements(stmts) ==
    IF stmts = << >> THEN << >>
    ELSE IF Head(stmts) \in RemovedStatementKinds THEN KeptStatements(Tail(stmts))
    ELSE << Head(stmts) >> \o KeptStatements(Tail(stmts))

\* The ULLBC statement that a kept MIR statement becomes.
TranslationOf(kind) ==
    CASE kind = "Assign" -> "Assign"
      [] kind = "FakeRead" -> "FakeRead"
      [] kind = "PlaceMention" -> "FakeRead"
      [] kind = "SetDiscriminant" -> "SetDiscriminant"
      [] kind = "StorageDead" -> "StorageDead"
      [] kind = "Deinit" -> "Deinit"
      [] kind = "Assume" -> "Assert"

\* The calls of translate_basic_block that returned Ok.
BlockTranslated ==
    /\ IsSome(call)
    /\ Unwrap(call).op = "translate_basic_block"
    /\ Unwrap(call).res = "Ok"

\* C22: when translate_basic_block succeeds, the statements of the
\* translated block are the translations of the MIR statements other than
\* StorageLive, Retag, AscribeUserType, Coverage, ConstEvalCounter and Nop,
\* in their order, then at most one statement made from the terminator; the
\* block has one terminator and is stored, as one new entry, under the id
\* registered for the MIR block.
C22_StatementPassThrough ==
    BlockTranslated =>
        LET c    == Unwrap(call)
            b    == Unwrap(c.block)
            kept == KeptStatements(c.mir_statements)
            n    == Len(kept)
        IN  /\ Len(b.statements) \in { n, n + 1 }
            /\ \A i \in 1..n : b.statements[i] = TranslationOf(kept[i])
            /\ Len(b.statements) = n + 1 =>
                  /\ c.mir_terminator.kind \in { "Drop", "Call", "Assert" }
                  /\ b.statements[n + 1] = c.mir_terminator.kind
            /\ b.terminator.kind \in { "Goto", "Switch", "Abort", "Return" }
            /\ c.nid = c.blocks_map[c.block_id]
            /\ c.nid \notin DOMAIN c.blocks_before
            /\ DOMAIN c.blocks = DOMAIN c.blocks_before \cup { c.nid }
            /\ c.blocks[c.nid] = BlockShape(b)
            /\ \A id \in DOMAIN c.blocks_before : c.blocks[id] = c.blocks_before[id]

\* A block stored under an id other than its MIR id: a kept statement, a
\* removed one, then the statement of a Drop.
C22_Witness ==
    /\ BlockTranslated
    /\ Unwrap(call).nid # Unwrap(call).block_id
    /\ Unwrap(call).mir_statements = << "StorageDead", "Nop" >>
    /\ Unwrap(call).mir_terminator.kind = "Drop"
    /\ Unwrap(Unwrap(call).block).statements = << "StorageDead", "Drop" >>

====
